---- MODULE Spec2Model ----
(***************************************************************************)
(* RotatedArraySet (src/src/lib.rs): an ordered set stored in one vector   *)
(* `data`, cut into subarrays of sizes 1, 2, 3, ... (subarray i occupies   *)
(* the window [T(i), T(i+1)) with T(i) = i(i+1)/2), each subarray a sorted *)
(* array rotated by its pivot offset min_indexes[i], with the minimum of   *)
(* each subarray cached in min_data[i].                                    *)
(*                                                                         *)
(* Rust vectors are 0-based; the model keeps the 0-based indices of the    *)
(* source and goes through At/SetAt/Slice to reach the 1-based sequences.  *)
(***************************************************************************)
EXTENDS Integers, Sequences, FiniteSets, TLC

\* ------------------------------------------------------------------ bounds
\* The element type T is instantiated with the integers 0 .. NumValues-1.
NumValues == 7

Values == 0 .. (NumValues - 1)

\* T::default() for the integer element type (pushed by insert, lib.rs:512).
DefaultValue == 0

\* ------------------------------------------------------- 0-based vectors
At(s, i) == s[i + 1]

SetAt(s, i, x) == [s EXCEPT ![i + 1] = x]

\* s[a..b]
Slice(s, a, b) == SubSeq(s, a + 1, b)

\* Vec::insert(i, x)
VecInsert(s, i, x) == Slice(s, 0, i) \o <<x>> \o Slice(s, i, Len(s))

\* Vec::remove(i)
VecRemove(s, i) == Slice(s, 0, i) \o Slice(s, i + 1, Len(s))

\* slice.copy_within(a..b, dest): the source range is read before any write.
CopyWithin(s, a, b, dest) ==
  [k \in 1 .. Len(s) |->
     IF (k - 1) >= dest /\ (k - 1) < dest + (b - a)
       THEN s[(k - 1) - dest + a + 1]
       ELSE s[k]]

\* the panic conditions of slice.copy_within(a..b, dest)
CopyWithinPanics(s, a, b, dest) ==
  \/ a > b
  \/ b > Len(s)
  \/ dest > Len(s) - (b - a)

\* slice.rotate_left(mid)
RotateLeft(s, mid) == Slice(s, mid, Len(s)) \o Slice(s, 0, mid)

\* data[..off] ++ sub ++ data[off + len(sub)..]: writing through a &mut sub-slice
Splice(s, off, sub) == Slice(s, 0, off) \o sub \o Slice(s, off + Len(sub), Len(s))

\* slice.binary_search(value): [ok |-> found, idx |-> index or insertion point]
RECURSIVE BinarySearchLoop(_, _, _, _)
BinarySearchLoop(s, value, left, right) ==
  IF left < right
    THEN LET size == right - left
             mid  == left + (size \div 2)
         IN  IF At(s, mid) < value THEN BinarySearchLoop(s, value, mid + 1, right)
             ELSE IF At(s, mid) > value THEN BinarySearchLoop(s, value, left, mid)
             ELSE [ok |-> TRUE, idx |-> mid]
    ELSE [ok |-> FALSE, idx |-> left]

binary_search(s, value) == BinarySearchLoop(s, value, 0, Len(s))

\* IsSorted::is_sorted (non-strict)
is_sorted(s) == \A i \in 1 .. Len(s) - 1 : s[i] <= s[i + 1]

\* --------------------------------------------------- partition arithmetic
integer_sum(n) == (n * (n + 1)) \div 2

\* floor of the square root: what `(x as f64).sqrt() as usize` gives for the
\* exactly representable arguments 8n+1 of the model's range
RECURSIVE ISqrtFrom(_, _)
ISqrtFrom(x, r) == IF (r + 1) * (r + 1) > x THEN r ELSE ISqrtFrom(x, r + 1)

ISqrt(x) == ISqrtFrom(x, 0)

integer_sum_inverse(n) ==
  LET tmp == (ISqrt(8 * n + 1) - 1) \div 2
      sum == integer_sum(tmp)
  IN  IF sum <= n THEN tmp ELSE tmp - 1

\* the values `floaty as usize` can take (lib.rs:1195-1196). An f64 carries 53
\* bits: from offsets near 2^53 on, the conversion of n, the sum 8n+1 and the
\* square root are rounded, and the truncated result is the exact floor or
\* one above it, never below it and never two above.
floaty_as_usize(n) ==
  {(ISqrt(8 * n + 1) - 1) \div 2, ((ISqrt(8 * n + 1) - 1) \div 2) + 1}

\* faulty variant of the correction step: tmp is returned as it is
integer_sum_inverse_uncorrected(n, tmp) == tmp

\* the correction step of integer_sum_inverse (lib.rs:1197-1202)
integer_sum_inverse_with(n, tmp) ==
  IF integer_sum(tmp) <= n THEN tmp ELSE tmp - 1

get_subarray_idx_from_array_idx(idx) ==
  IF idx = 0 THEN 0 ELSE integer_sum_inverse(idx)

get_array_idx_from_subarray_idx(idx) ==
  IF idx = 0 THEN 0 ELSE integer_sum(idx)

\* ------------------------------------------------------------------ state
VARIABLES
  data,         \* Vec<T>: the backing store
  min_indexes,  \* Vec<usize>: pivot offset of each subarray
  min_data,     \* Vec<T>: cached minimum of each subarray
  last,         \* history of the last call: its name, argument, result,
                \* whether it panicked, and the three arrays before it
  present,      \* history: the values inserted and not since removed
  roundtrip,    \* history of an insert(v) directly followed by remove(v):
                \* the content before the insert and whether v was new
  iter,         \* an Iter borrowed from the container, if one is open: its
                \* cursors, and the history of the calls made on it
  other,        \* a second container: the argument of the set operations
                \* and the set returned by split_off
  alg           \* a Difference, SymmetricDifference, Intersection or Union
                \* borrowed from the two containers, if one is open, and
                \* the history of the next() calls made on it

setVars == <<data, min_indexes, min_data>>

\* the variables of the views taken of the container
viewVars == <<iter, other, alg>>

\* the history variables of the mutating calls
callVars == <<last, present, roundtrip>>

vars == <<data, min_indexes, min_data, last, present, roundtrip, iter, other, alg>>

\* the container as one value
Self == [data |-> data, min_indexes |-> min_indexes, min_data |-> min_data]

EmptySet == [data |-> <<>>, min_indexes |-> <<>>, min_data |-> <<>>]

len(S) == Len(S.data)

is_last_subarray_full(S) ==
  Len(S.data) = get_array_idx_from_subarray_idx(Len(S.min_indexes))

\* the debug-build check of the container (lib.rs:1313-1350): TRUE when every
\* assertion passes, FALSE when one fails or an index it reads is out of range
assert_invariants(S) ==
  /\ is_sorted(S.min_data)
  /\ \A i \in 1 .. Len(S.min_data) - 1 : S.min_data[i] # S.min_data[i + 1]
  /\ \A idx \in 0 .. Len(S.min_indexes) - 1 : At(S.min_indexes, idx) <= idx
  /\ \A idx \in 0 .. Len(S.min_indexes) - 1 :
       /\ idx < Len(S.min_data)
       /\ get_array_idx_from_subarray_idx(idx) + At(S.min_indexes, idx) < Len(S.data)
       /\ At(S.min_data, idx)
            = At(S.data, get_array_idx_from_subarray_idx(idx) + At(S.min_indexes, idx))
  /\ \A i \in 0 .. Len(S.min_indexes) - 1 :
       LET subarray_begin_idx == get_array_idx_from_subarray_idx(i)
           end_full == get_array_idx_from_subarray_idx(i + 1)
           subarray_end_idx == IF Len(S.data) < end_full THEN Len(S.data) ELSE end_full
           subarray == Slice(S.data, subarray_begin_idx, subarray_end_idx)
           \* min_by returns the first of the smallest elements
           min_idx == CHOOSE j \in 0 .. Len(subarray) - 1 :
                        /\ \A k \in 0 .. Len(subarray) - 1 : At(subarray, j) <= At(subarray, k)
                        /\ \A k \in 0 .. j - 1 : At(subarray, k) > At(subarray, j)
       IN  /\ subarray_begin_idx < subarray_end_idx
           /\ min_idx = At(S.min_indexes, i)

\* ---------------------------------------------------------------- locator
\* faulty variant of prev_max_idx_of: the pivot of the predecessor is ignored
prev_max_idx_of_first_slot(S, idx) ==
  get_array_idx_from_subarray_idx(idx - 1)

\* offset of the maximum of the full subarray preceding subarray idx
\* (find_raw_index, lib.rs:1258-1263)
prev_max_idx_of(S, idx) ==
  IF At(S.min_indexes, idx - 1) = 0
    THEN get_array_idx_from_subarray_idx(idx) - 1
    ELSE get_array_idx_from_subarray_idx(idx - 1) + At(S.min_indexes, idx - 1) - 1

\* faulty variant of candidate_subarray: the comparison with the maximum of the
\* predecessor is strict
candidate_subarray_strict(S, value, idx) ==
  IF idx = 0 THEN 0
  ELSE IF idx = Len(S.min_indexes) /\ ~is_last_subarray_full(S) THEN idx - 1
  ELSE IF value < At(S.data, prev_max_idx_of(S, idx)) THEN idx - 1
  ELSE idx

\* the subarray that holds, or must receive, a value missing from min_data,
\* idx being the insertion point of the value in min_data
candidate_subarray(S, value, idx) ==
  IF idx = 0 THEN 0
  ELSE IF idx = Len(S.min_indexes) /\ ~is_last_subarray_full(S) THEN idx - 1
  ELSE IF value <= At(S.data, prev_max_idx_of(S, idx)) THEN idx - 1
  ELSE idx

\* the search of one subarray, split at its pivot into two sorted slices
search_subarray(S, value, subarray_idx) ==
  LET subarray_offset == get_array_idx_from_subarray_idx(subarray_idx)
      next_subarray_offset ==
        IF subarray_idx = Len(S.min_indexes) - 1
          THEN Len(S.data)
          ELSE get_array_idx_from_subarray_idx(subarray_idx + 1)
      subarray == Slice(S.data, subarray_offset, next_subarray_offset)
      pivot_offset == At(S.min_indexes, subarray_idx)
      subarray_pivot == subarray_offset + pivot_offset
      left == Slice(subarray, 0, pivot_offset)
      right == Slice(subarray, pivot_offset, Len(subarray))
      l == binary_search(left, value)
      r == binary_search(right, value)
  IN  IF subarray_offset = Len(S.data)
        THEN [ok |-> FALSE, idx |-> subarray_offset, unreachable |-> FALSE]
      ELSE IF l.ok
        THEN [ok |-> TRUE, idx |-> subarray_offset + l.idx, unreachable |-> FALSE]
      ELSE IF r.ok
        THEN [ok |-> TRUE, idx |-> subarray_pivot + r.idx, unreachable |-> FALSE]
      ELSE IF r.idx = Len(right) /\ Len(left) # 0
        THEN [ok |-> FALSE, idx |-> subarray_offset + l.idx, unreachable |-> FALSE]
      ELSE IF r.idx < Len(right) \/ Len(left) = 0
        THEN [ok |-> FALSE, idx |-> subarray_pivot + r.idx, unreachable |-> FALSE]
      ELSE [ok |-> FALSE, idx |-> 0, unreachable |-> TRUE]

\* faulty variant of find_raw_index: a hit in min_data is reported at the
\* first slot of the subarray, the pivot offset left out
find_raw_index_no_pivot(S, value) ==
  IF Len(S.data) = 0
    THEN [ok |-> FALSE, idx |-> 0, unreachable |-> FALSE]
    ELSE LET m == binary_search(S.min_data, value)
         IN  IF m.ok
               THEN [ok |-> TRUE,
                     idx |-> get_array_idx_from_subarray_idx(m.idx),
                     unreachable |-> FALSE]
               ELSE search_subarray(S, value, candidate_subarray(S, value, m.idx))

\* Result<usize, usize>: Ok(idx) is [ok |-> TRUE, idx], Err(idx) is
\* [ok |-> FALSE, idx]; unreachable marks the unreachable!() arm
find_raw_index(S, value) ==
  IF Len(S.data) = 0
    THEN [ok |-> FALSE, idx |-> 0, unreachable |-> FALSE]
    ELSE LET m == binary_search(S.min_data, value)
         IN  IF m.ok
               THEN [ok |-> TRUE,
                     idx |-> get_array_idx_from_subarray_idx(m.idx)
                               + At(S.min_indexes, m.idx),
                     unreachable |-> FALSE]
               ELSE search_subarray(S, value, candidate_subarray(S, value, m.idx))

\* ------------------------------------------------------------------ reads
get(S, value) ==
  LET f == find_raw_index(S, value)
  IN  IF f.ok THEN <<At(S.data, f.idx)>> ELSE <<>>

contains(S, value) == get(S, value) # <<>>

\* faulty variant of rank: the raw index is returned as the logical index
rank_raw_index(S, value) ==
  LET f == find_raw_index(S, value)
  IN  IF f.idx = Len(S.data)
        THEN [ok |-> FALSE, idx |-> f.idx]
        ELSE [ok |-> f.ok, idx |-> f.idx]

\* Result<usize, usize> as [ok, idx]
rank(S, value) ==
  LET f == find_raw_index(S, value)
      raw_index == f.idx
      subarray_idx == get_subarray_idx_from_array_idx(raw_index)
      subarray_start_idx == get_array_idx_from_subarray_idx(subarray_idx)
      subarray_len ==
        IF subarray_idx = Len(S.min_indexes) - 1
          THEN Len(S.data) - subarray_start_idx
          ELSE subarray_idx + 1
      pivot_idx == subarray_start_idx + At(S.min_indexes, subarray_idx)
      logical_index ==
        IF raw_index >= pivot_idx
          THEN subarray_start_idx + raw_index - pivot_idx
          ELSE subarray_start_idx + subarray_len - (pivot_idx - raw_index)
  IN  IF raw_index = Len(S.data)
        THEN [ok |-> FALSE, idx |-> raw_index]
        ELSE [ok |-> f.ok, idx |-> logical_index]

\* faulty variant of select: the pivot offset of the subarray is ignored
select_no_pivot(S, r) ==
  IF r >= Len(S.data) THEN <<>> ELSE <<At(S.data, r)>>

\* faulty variant of select: the pivot offset is subtracted instead of added
select_back_pivot(S, r) ==
  IF r >= Len(S.data)
    THEN <<>>
    ELSE LET subarray_idx == get_subarray_idx_from_array_idx(r)
             subarray_start_idx == get_array_idx_from_subarray_idx(subarray_idx)
             subarray_len ==
               IF subarray_idx = Len(S.min_indexes) - 1
                 THEN Len(S.data) - subarray_start_idx
                 ELSE subarray_idx + 1
             idx_offset == r - subarray_start_idx
             pivot_offset == At(S.min_indexes, subarray_idx)
             rotated_offset == (idx_offset + subarray_len - pivot_offset) % subarray_len
         IN  <<At(S.data, subarray_start_idx + rotated_offset)>>

\* Option<&T>: Some(x) is <<x>>, None is <<>>
select(S, r) ==
  IF r >= Len(S.data)
    THEN <<>>
    ELSE LET subarray_idx == get_subarray_idx_from_array_idx(r)
             subarray_start_idx == get_array_idx_from_subarray_idx(subarray_idx)
             subarray_len ==
               IF subarray_idx = Len(S.min_indexes) - 1
                 THEN Len(S.data) - subarray_start_idx
                 ELSE subarray_idx + 1
             idx_offset == r - subarray_start_idx
             pivot_offset == At(S.min_indexes, subarray_idx)
             rotated_offset == (pivot_offset + idx_offset) % subarray_len
             raw_idx == subarray_start_idx + rotated_offset
         IN  <<At(S.data, raw_idx)>>

\* ----------------------------------------------------------------- insert
\* An operation's outcome: the container after it, the value returned and
\* whether one of its assertions or index checks failed on the way.
Outcome(S, ret, panic) == [set |-> S, ret |-> ret, panic |-> panic]

\* insertion into the last, partially filled subarray (lib.rs:516-528)
insert_partial(S, value, insert_idx, subarray_idx) ==
  LET subarray_offset == get_array_idx_from_subarray_idx(subarray_idx)
      d == VecInsert(S.data, insert_idx, value)
      R == [data |-> d,
            min_indexes |-> S.min_indexes,
            min_data |-> SetAt(S.min_data, subarray_idx, At(d, subarray_offset))]
  IN  Outcome(R, TRUE, At(S.min_indexes, subarray_idx) # 0 \/ ~assert_invariants(R))

\* local insertion into the full subarray subarray_idx (lib.rs:529-558):
\* the container after it and the maximum it evicts
insert_full_local(S, value, insert_idx, subarray_idx) ==
  LET subarray_offset == get_array_idx_from_subarray_idx(subarray_idx)
      next_subarray_offset == get_array_idx_from_subarray_idx(subarray_idx + 1)
      subarray == Slice(S.data, subarray_offset, next_subarray_offset)
      pivot_offset == At(S.min_indexes, subarray_idx)
      insert_offset == insert_idx - subarray_offset
      max_offset == IF pivot_offset = 0 THEN Len(subarray) - 1 ELSE pivot_offset - 1
      prev_max == At(subarray, max_offset)
  IN  IF max_offset < pivot_offset /\ insert_offset >= pivot_offset
        THEN LET moved == CopyWithin(subarray, pivot_offset, insert_offset, max_offset)
                 sub == SetAt(moved, insert_offset - 1, value)
             IN  [set |-> [data |-> Splice(S.data, subarray_offset, sub),
                           min_indexes |-> SetAt(S.min_indexes, subarray_idx, max_offset),
                           min_data |-> SetAt(S.min_data, subarray_idx, At(sub, max_offset))],
                  prev_max |-> prev_max,
                  panic |-> CopyWithinPanics(subarray, pivot_offset, insert_offset, max_offset)]
        ELSE LET moved == CopyWithin(subarray, insert_offset, max_offset, insert_offset + 1)
                 sub == SetAt(moved, insert_offset, value)
             IN  [set |-> [data |-> Splice(S.data, subarray_offset, sub),
                           min_indexes |-> S.min_indexes,
                           min_data |-> IF insert_offset = pivot_offset
                                          THEN SetAt(S.min_data, subarray_idx, value)
                                          ELSE S.min_data],
                  prev_max |-> prev_max,
                  panic |-> CopyWithinPanics(subarray, insert_offset, max_offset, insert_offset + 1)]

\* faulty variant of insert_propagate: the carried value is exchanged with
\* the minimum of each subarray, written into the pivot slot
RECURSIVE insert_propagate_min_slot(_, _, _, _, _)
insert_propagate_min_slot(S, cur_subarray_idx, prev_max, max_subarray_idx, last_subarray_full) ==
  IF cur_subarray_idx > max_subarray_idx
       \/ (cur_subarray_idx = max_subarray_idx /\ ~last_subarray_full)
    THEN [set |-> S, prev_max |-> prev_max]
    ELSE LET min_idx == At(S.min_indexes, cur_subarray_idx)
                          + get_array_idx_from_subarray_idx(cur_subarray_idx)
         IN  insert_propagate_min_slot(
               [data |-> SetAt(S.data, min_idx, prev_max),
                min_indexes |-> S.min_indexes,
                min_data |-> SetAt(S.min_data, cur_subarray_idx, prev_max)],
               cur_subarray_idx + 1, At(S.data, min_idx), max_subarray_idx,
               last_subarray_full)

\* faulty variant of insert_propagate: the pivot offsets are left as they are
RECURSIVE insert_propagate_keep_pivot(_, _, _, _, _)
insert_propagate_keep_pivot(S, cur_subarray_idx, prev_max, max_subarray_idx, last_subarray_full) ==
  IF cur_subarray_idx > max_subarray_idx
       \/ (cur_subarray_idx = max_subarray_idx /\ ~last_subarray_full)
    THEN [set |-> S, prev_max |-> prev_max]
    ELSE LET pivot_offset == At(S.min_indexes, cur_subarray_idx)
             max_offset == IF pivot_offset = 0 THEN cur_subarray_idx ELSE pivot_offset - 1
             max_idx == max_offset + get_array_idx_from_subarray_idx(cur_subarray_idx)
         IN  insert_propagate_keep_pivot(
               [data |-> SetAt(S.data, max_idx, prev_max),
                min_indexes |-> S.min_indexes,
                min_data |-> SetAt(S.min_data, cur_subarray_idx, prev_max)],
               cur_subarray_idx + 1, At(S.data, max_idx), max_subarray_idx,
               last_subarray_full)

\* the loop over the subarrays after the target (lib.rs:563-581): the carried
\* value takes the place of each subarray's maximum, which becomes its pivot
RECURSIVE insert_propagate(_, _, _, _, _)
insert_propagate(S, cur_subarray_idx, prev_max, max_subarray_idx, last_subarray_full) ==
  IF cur_subarray_idx > max_subarray_idx
       \/ (cur_subarray_idx = max_subarray_idx /\ ~last_subarray_full)
    THEN [set |-> S, prev_max |-> prev_max]
    ELSE LET pivot_offset == At(S.min_indexes, cur_subarray_idx)
             max_offset == IF pivot_offset = 0 THEN cur_subarray_idx ELSE pivot_offset - 1
             max_idx == max_offset + get_array_idx_from_subarray_idx(cur_subarray_idx)
             next_max == At(S.data, max_idx)
         IN  insert_propagate(
               [data |-> SetAt(S.data, max_idx, prev_max),
                min_indexes |-> SetAt(S.min_indexes, cur_subarray_idx, max_offset),
                min_data |-> SetAt(S.min_data, cur_subarray_idx, prev_max)],
               cur_subarray_idx + 1, next_max, max_subarray_idx, last_subarray_full)

\* faulty variant of insert_finish: the carried value overwrites the first slot of the
\* partial last subarray instead of being inserted before it
insert_finish_overwrite(S, prev_max, max_subarray_idx, last_subarray_full) ==
  IF last_subarray_full
    THEN Outcome([data |-> Append(S.data, prev_max),
                  min_indexes |-> Append(S.min_indexes, 0),
                  min_data |-> Append(S.min_data, prev_max)],
                 TRUE, FALSE)
    ELSE LET max_subarray_offset == get_array_idx_from_subarray_idx(max_subarray_idx)
         IN  Outcome([data |-> SetAt(S.data, max_subarray_offset, prev_max),
                      min_indexes |-> S.min_indexes,
                      min_data |-> SetAt(S.min_data, max_subarray_idx, prev_max)],
                     TRUE, FALSE)

\* faulty variant of insert_finish: the carried value is pushed behind the
\* partial last subarray instead of being inserted at its first offset
insert_finish_push(S, prev_max, max_subarray_idx, last_subarray_full) ==
  IF last_subarray_full
    THEN Outcome([data |-> Append(S.data, prev_max),
                  min_indexes |-> Append(S.min_indexes, 0),
                  min_data |-> Append(S.min_data, prev_max)],
                 TRUE, FALSE)
    ELSE Outcome([data |-> Append(S.data, prev_max),
                  min_indexes |-> S.min_indexes,
                  min_data |-> SetAt(S.min_data, max_subarray_idx, prev_max)],
                 TRUE, FALSE)

\* the end of an insert into a full subarray (lib.rs:582-593)
insert_finish(S, prev_max, max_subarray_idx, last_subarray_full) ==
  IF last_subarray_full
    THEN Outcome([data |-> Append(S.data, prev_max),
                  min_indexes |-> Append(S.min_indexes, 0),
                  min_data |-> Append(S.min_data, prev_max)],
                 TRUE, FALSE)
    ELSE LET max_subarray_offset == get_array_idx_from_subarray_idx(max_subarray_idx)
         IN  Outcome([data |-> VecInsert(S.data, max_subarray_offset, prev_max),
                      min_indexes |-> S.min_indexes,
                      min_data |-> SetAt(S.min_data, max_subarray_idx, prev_max)],
                     TRUE,
                     ~(prev_max <= At(S.data, max_subarray_offset)))

insert_full(S, value, insert_idx, subarray_idx) ==
  LET loc == insert_full_local(S, value, insert_idx, subarray_idx)
      max_subarray_idx == Len(S.min_indexes) - 1
      last_subarray_full == is_last_subarray_full(loc.set)
      prop == insert_propagate(loc.set, subarray_idx + 1, loc.prev_max,
                               max_subarray_idx, last_subarray_full)
      fin == insert_finish(prop.set, prop.prev_max, max_subarray_idx, last_subarray_full)
  IN  Outcome(fin.set, TRUE,
              \/ loc.panic
              \/ ~assert_invariants(loc.set)
              \/ fin.panic
              \/ ~find_raw_index(fin.set, value).ok
              \/ ~assert_invariants(fin.set))

insert(S, value) ==
  LET f == find_raw_index(S, value)
      insert_idx == f.idx
      subarray_idx == get_subarray_idx_from_array_idx(insert_idx)
      \* create a new subarray if necessary
      S1 == IF subarray_idx = Len(S.min_indexes)
              THEN [data |-> S.data,
                    min_indexes |-> Append(S.min_indexes, 0),
                    min_data |-> Append(S.min_data, DefaultValue)]
              ELSE S
      r == IF subarray_idx = Len(S1.min_indexes) - 1 /\ ~is_last_subarray_full(S1)
             THEN insert_partial(S1, value, insert_idx, subarray_idx)
             ELSE insert_full(S1, value, insert_idx, subarray_idx)
  IN  IF f.ok
        THEN Outcome(S, FALSE, FALSE)
        ELSE Outcome(r.set, r.ret,
                     r.panic \/ f.unreachable \/ subarray_idx > Len(S.min_indexes))

\* ----------------------------------------------------------------- remove
\* faulty variant of remove_sort_last: the pivot is reset but the slots are not rotated
remove_sort_last_no_rotate(S, max_subarray_idx, max_subarray_offset) ==
  IF is_last_subarray_full(S)
    THEN [data |-> S.data,
          min_indexes |-> SetAt(S.min_indexes, max_subarray_idx, 0),
          min_data |-> S.min_data]
    ELSE S

\* faulty variant of remove_sort_last: every subarray is put back in sorted order, not
\* only the last
remove_sort_last_and_others(S, max_subarray_idx, max_subarray_offset) ==
  IF is_last_subarray_full(S)
    THEN [data |-> [i \in 1 .. Len(S.data) |-> select(S, i - 1)[1]],
          min_indexes |-> [i \in 1 .. Len(S.min_indexes) |-> 0],
          min_data |-> S.min_data]
    ELSE S

\* a full last subarray is rotated back to sorted order (lib.rs:633-638)
remove_sort_last(S, max_subarray_idx, max_subarray_offset) ==
  IF is_last_subarray_full(S)
    THEN LET last_min_offset == At(S.min_indexes, max_subarray_idx)
             tail == Slice(S.data, max_subarray_offset, Len(S.data))
         IN  [data |-> Slice(S.data, 0, max_subarray_offset)
                         \o RotateLeft(tail, last_min_offset),
              min_indexes |-> SetAt(S.min_indexes, max_subarray_idx, 0),
              min_data |-> S.min_data]
    ELSE S

\* the "hard exchange" in the full subarray that holds the value
\* (lib.rs:649-682): the container after it and the offset of the hole
remove_hard_exchange(S, remove_idx, subarray_idx) ==
  LET subarray_offset == get_array_idx_from_subarray_idx(subarray_idx)
      next_subarray_offset == get_array_idx_from_subarray_idx(subarray_idx + 1)
      subarray == Slice(S.data, subarray_offset, next_subarray_offset)
      pivot_offset == At(S.min_indexes, subarray_idx)
      remove_offset == remove_idx - subarray_offset
      max_offset == IF pivot_offset = 0 THEN Len(subarray) - 1 ELSE pivot_offset - 1
  IN  IF max_offset < pivot_offset /\ remove_offset >= pivot_offset
        THEN LET sub == CopyWithin(subarray, pivot_offset, remove_offset, pivot_offset + 1)
                 new_pivot_offset ==
                   IF pivot_offset = Len(subarray) - 1 THEN 0 ELSE pivot_offset + 1
             IN  [set |-> [data |-> Splice(S.data, subarray_offset, sub),
                           min_indexes |-> SetAt(S.min_indexes, subarray_idx, new_pivot_offset),
                           min_data |-> SetAt(S.min_data, subarray_idx,
                                              At(sub, new_pivot_offset))],
                  prev_max_offset |-> pivot_offset,
                  panic |-> CopyWithinPanics(subarray, pivot_offset, remove_offset,
                                             pivot_offset + 1)]
        ELSE LET sub == CopyWithin(subarray, remove_offset + 1, max_offset + 1, remove_offset)
             IN  [set |-> [data |-> Splice(S.data, subarray_offset, sub),
                           min_indexes |-> S.min_indexes,
                           min_data |-> IF remove_offset = pivot_offset
                                          THEN SetAt(S.min_data, subarray_idx,
                                                     At(sub, pivot_offset))
                                          ELSE S.min_data],
                  prev_max_offset |-> max_offset,
                  panic |-> CopyWithinPanics(subarray, remove_offset + 1, max_offset + 1,
                                             remove_offset)]

\* faulty variant of remove_easy_exchange: each subarray gives its minimum to the hole
\* of its predecessor, but its pivot is not advanced to the next slot
RECURSIVE remove_easy_exchange_keep_pivot(_, _, _, _)
remove_easy_exchange_keep_pivot(S, cur_subarray_idx, prev_max_offset, max_subarray_idx) ==
  IF cur_subarray_idx >= max_subarray_idx
    THEN [set |-> S, prev_max_offset |-> prev_max_offset]
    ELSE LET pivot_offset == At(S.min_indexes, cur_subarray_idx)
             cur_subarray_offset == get_array_idx_from_subarray_idx(cur_subarray_idx)
             prev_max_idx ==
               prev_max_offset + get_array_idx_from_subarray_idx(cur_subarray_idx - 1)
             d == SetAt(S.data, prev_max_idx, At(S.data, cur_subarray_offset + pivot_offset))
             md0 == IF cur_subarray_idx = 1 THEN SetAt(S.min_data, 0, At(d, 0)) ELSE S.min_data
         IN  remove_easy_exchange_keep_pivot(
               [data |-> d,
                min_indexes |-> S.min_indexes,
                min_data |-> SetAt(md0, cur_subarray_idx,
                                   At(d, cur_subarray_offset + pivot_offset))],
               cur_subarray_idx + 1, pivot_offset, max_subarray_idx)

\* the "easy exchange" in the subarrays between the target and the last
\* (lib.rs:686-710): each gives its minimum to the hole of its predecessor
RECURSIVE remove_easy_exchange(_, _, _, _)
remove_easy_exchange(S, cur_subarray_idx, prev_max_offset, max_subarray_idx) ==
  IF cur_subarray_idx >= max_subarray_idx
    THEN [set |-> S, prev_max_offset |-> prev_max_offset]
    ELSE LET pivot_offset == At(S.min_indexes, cur_subarray_idx)
             cur_subarray_offset == get_array_idx_from_subarray_idx(cur_subarray_idx)
             prev_max_idx ==
               prev_max_offset + get_array_idx_from_subarray_idx(cur_subarray_idx - 1)
             d == SetAt(S.data, prev_max_idx, At(S.data, cur_subarray_offset + pivot_offset))
             md0 == IF cur_subarray_idx = 1 THEN SetAt(S.min_data, 0, At(d, 0)) ELSE S.min_data
             new_min_offset ==
               IF pivot_offset = cur_subarray_idx THEN 0 ELSE pivot_offset + 1
         IN  remove_easy_exchange(
               [data |-> d,
                min_indexes |-> SetAt(S.min_indexes, cur_subarray_idx, new_min_offset),
                min_data |-> SetAt(md0, cur_subarray_idx,
                                   At(d, cur_subarray_offset + new_min_offset))],
               cur_subarray_idx + 1, pivot_offset, max_subarray_idx)

\* faulty variant of remove_fill_from_last: min_data[0] is not refreshed when the hole
\* is the only slot of subarray 0
remove_fill_from_last_stale_min(S, prev_max_offset, max_subarray_idx, max_subarray_offset) ==
  LET prev_max_idx == prev_max_offset + get_array_idx_from_subarray_idx(max_subarray_idx - 1)
  IN  [data |-> SetAt(S.data, prev_max_idx, At(S.data, max_subarray_offset)),
       min_indexes |-> S.min_indexes,
       min_data |-> S.min_data]

\* the minimum of the sorted last subarray fills the last hole (lib.rs:715-724)
remove_fill_from_last(S, prev_max_offset, max_subarray_idx, max_subarray_offset) ==
  LET prev_max_idx == prev_max_offset + get_array_idx_from_subarray_idx(max_subarray_idx - 1)
      d == SetAt(S.data, prev_max_idx, At(S.data, max_subarray_offset))
  IN  [data |-> d,
       min_indexes |-> S.min_indexes,
       min_data |-> IF max_subarray_idx = 1 THEN SetAt(S.min_data, 0, At(d, 0))
                                            ELSE S.min_data]

\* faulty variant of remove_last_slot: the last slot of data is deleted, whatever the
\* index to remove
remove_last_slot_pop(S, max_subarray_remove_idx, max_subarray_idx, max_subarray_offset) ==
  LET d == Slice(S.data, 0, Len(S.data) - 1)
  IN  IF max_subarray_offset = Len(d)
        THEN [data |-> d,
              min_indexes |-> Slice(S.min_indexes, 0, Len(S.min_indexes) - 1),
              min_data |-> Slice(S.min_data, 0, Len(S.min_data) - 1)]
        ELSE [data |-> d,
              min_indexes |-> S.min_indexes,
              min_data |-> SetAt(S.min_data, max_subarray_idx, At(d, max_subarray_offset))]

\* the slot given up by the last subarray is deleted (lib.rs:726-735)
remove_last_slot(S, max_subarray_remove_idx, max_subarray_idx, max_subarray_offset) ==
  LET d == VecRemove(S.data, max_subarray_remove_idx)
  IN  IF max_subarray_offset = Len(d)
        THEN [data |-> d,
              min_indexes |-> Slice(S.min_indexes, 0, Len(S.min_indexes) - 1),
              min_data |-> Slice(S.min_data, 0, Len(S.min_data) - 1)]
        ELSE [data |-> d,
              min_indexes |-> S.min_indexes,
              min_data |-> SetAt(S.min_data, max_subarray_idx, At(d, max_subarray_offset))]

\* remove once the value is known to be stored at remove_idx0
remove_found(S, value, remove_idx0) ==
  LET max_subarray_idx == Len(S.min_indexes) - 1
      max_subarray_offset == get_array_idx_from_subarray_idx(max_subarray_idx)
      subarray_idx == get_subarray_idx_from_array_idx(remove_idx0)
      S1 == remove_sort_last(S, max_subarray_idx, max_subarray_offset)
      \* the remove index might change after sorting the last subarray
      again == find_raw_index(S1, value)
      relocate == is_last_subarray_full(S) /\ subarray_idx = max_subarray_idx
      remove_idx == IF relocate THEN again.idx ELSE remove_idx0
      max_subarray_remove_idx ==
        IF subarray_idx = max_subarray_idx THEN remove_idx ELSE max_subarray_offset
      hard == remove_hard_exchange(S1, remove_idx, subarray_idx)
      easy == remove_easy_exchange(hard.set, subarray_idx + 1, hard.prev_max_offset,
                                   max_subarray_idx)
      S2 == IF subarray_idx < max_subarray_idx
              THEN remove_fill_from_last(easy.set, easy.prev_max_offset,
                                         max_subarray_idx, max_subarray_offset)
              ELSE S1
      R == remove_last_slot(S2, max_subarray_remove_idx, max_subarray_idx,
                            max_subarray_offset)
  IN  Outcome(R, TRUE,
              \/ Len(S.min_indexes) = 0
              \/ subarray_idx > max_subarray_idx
              \/ (relocate /\ (~assert_invariants(S1) \/ ~again.ok))
              \/ (subarray_idx < max_subarray_idx /\ hard.panic)
              \/ find_raw_index(R, value).ok
              \/ ~assert_invariants(R))

\* faulty variant of remove: the insertion point of an absent value is taken for the
\* index of the value
remove_ignoring_err(S, value) ==
  IF Len(S.data) = 0
    THEN Outcome(S, FALSE, FALSE)
    ELSE remove_found(S, value, find_raw_index(S, value).idx)

remove(S, value) ==
  LET f == find_raw_index(S, value)
  IN  IF ~f.ok
        THEN Outcome(S, FALSE, FALSE)
        ELSE remove_found(S, value, f.idx)

\* ------------------------------------------------------------------- take
\* faulty variant of take: the value is looked up but not removed
take_keep(S, value) == Outcome(S, get(S, value), FALSE)

\* r is the result of the call of remove
take_removed(ret, r) == Outcome(r.set, ret, r.panic)

\* ret is the copied result of get
take_got(S, value, ret) ==
  IF ret # <<>> THEN take_removed(ret, remove(S, value)) ELSE Outcome(S, ret, FALSE)

take(S, value) == take_got(S, value, get(S, value))

\* --------------------------------------------------------- truncate, clear
clear(S) == EmptySet

\* faulty variant of truncate: the subarray that becomes the last one is cut
\* without being put in sorted order first
truncate_no_sort(S, n) ==
  IF n = 0 THEN clear(S)
  ELSE IF n < len(S)
    THEN LET subarray_idx == get_subarray_idx_from_array_idx(n - 1)
         IN  [data |-> Slice(S.data, 0, n),
              min_indexes |-> Slice(S.min_indexes, 0, subarray_idx + 1),
              min_data |-> Slice(S.min_data, 0, subarray_idx + 1)]
  ELSE S

\* faulty variant of truncate: the pivot offsets and cached minima of the
\* subarrays that are cut away are kept
truncate_keep_aux(S, n) ==
  IF n = 0 THEN clear(S)
  ELSE IF n < len(S)
    THEN LET subarray_idx == get_subarray_idx_from_array_idx(n - 1)
             subarray_offset == get_array_idx_from_subarray_idx(subarray_idx)
             next_subarray_offset ==
               IF subarray_idx = Len(S.min_indexes) - 1
                 THEN Len(S.data)
                 ELSE get_array_idx_from_subarray_idx(subarray_idx + 1)
             subarray == Slice(S.data, subarray_offset, next_subarray_offset)
             min_offset == At(S.min_indexes, subarray_idx)
             d == Splice(S.data, subarray_offset, RotateLeft(subarray, min_offset))
         IN  [data |-> Slice(d, 0, n),
              min_indexes |-> SetAt(S.min_indexes, subarray_idx, 0),
              min_data |-> S.min_data]
  ELSE S

\* faulty variant of truncate: the data array is cut at the logical index
\* len - 1 instead of at len
truncate_one_short(S, n) ==
  IF n = 0 THEN clear(S)
  ELSE IF n < len(S)
    THEN LET index == n - 1
             subarray_idx == get_subarray_idx_from_array_idx(index)
             subarray_offset == get_array_idx_from_subarray_idx(subarray_idx)
             next_subarray_offset ==
               IF subarray_idx = Len(S.min_indexes) - 1
                 THEN Len(S.data)
                 ELSE get_array_idx_from_subarray_idx(subarray_idx + 1)
             subarray == Slice(S.data, subarray_offset, next_subarray_offset)
             min_offset == At(S.min_indexes, subarray_idx)
             d == Splice(S.data, subarray_offset, RotateLeft(subarray, min_offset))
         IN  [data |-> Slice(d, 0, index),
              min_indexes |-> Slice(SetAt(S.min_indexes, subarray_idx, 0), 0, subarray_idx + 1),
              min_data |-> Slice(S.min_data, 0, subarray_idx + 1)]
  ELSE S

truncate(S, n) ==
  IF n = 0 THEN clear(S)
  ELSE IF n < len(S)
    THEN LET index == n - 1
             subarray_idx == get_subarray_idx_from_array_idx(index)
             subarray_offset == get_array_idx_from_subarray_idx(subarray_idx)
             next_subarray_offset ==
               IF subarray_idx = Len(S.min_indexes) - 1
                 THEN Len(S.data)
                 ELSE get_array_idx_from_subarray_idx(subarray_idx + 1)
             subarray == Slice(S.data, subarray_offset, next_subarray_offset)
             min_offset == At(S.min_indexes, subarray_idx)
             d == Splice(S.data, subarray_offset, RotateLeft(subarray, min_offset))
         IN  [data |-> Slice(d, 0, n),
              min_indexes |-> Slice(SetAt(S.min_indexes, subarray_idx, 0), 0, subarray_idx + 1),
              min_data |-> Slice(S.min_data, 0, subarray_idx + 1)]
  ELSE S

\* ------------------------------------------------------- ranges, iterators
Min2(a, b) == IF a < b THEN a ELSE b

\* A Range is [start_index_inclusive, end_index_exclusive] over a container S
\* that every operation takes as its first argument (the shared borrow keeps
\* the container unchanged while the Range lives).
Range_with_bounds(S, start_index_inclusive, end_index_exclusive) ==
  [range |-> [start_index_inclusive |-> start_index_inclusive,
              end_index_exclusive |-> end_index_exclusive],
   panic |-> \/ ~(end_index_exclusive >= start_index_inclusive)
             \/ ~(end_index_exclusive <= len(S))]

Range_new(S) == Range_with_bounds(S, 0, len(S)).range

Range_at(S, rg, index) == select(S, index + rg.start_index_inclusive)

Range_len(rg) == rg.end_index_exclusive - rg.start_index_inclusive

Iter_new(rg) ==
  [range |-> rg,
   next_index |-> 0,
   next_rev_index |-> IF Range_len(rg) = 0 THEN 0 ELSE Range_len(rg) - 1]

Iter_len(it) == Range_len(it.range)

\* TRUE when every assertion of Iter::assert_invariants passes
Iter_assert_invariants(it) ==
  /\ it.next_index <= Range_len(it.range)
  /\ it.next_rev_index <= Range_len(it.range)
  /\ it.next_rev_index < it.next_index => it.next_index - it.next_rev_index = 1

\* the result of one call on an iterator: the iterator after the call, the
\* returned Option (<<x>> for Some(x), <<>> for None) and whether a debug
\* assertion failed
Step(it, ret, panic) == [it |-> it, ret |-> ret, panic |-> panic]

Iter_next(S, it) ==
  IF Iter_len(it) = 0 \/ it.next_index > it.next_rev_index
    THEN Step(it, <<>>, FALSE)
    ELSE LET it1 == [it EXCEPT !.next_index = @ + 1]
         IN  Step(it1, Range_at(S, it.range, it.next_index), ~Iter_assert_invariants(it1))

\* faulty variant of Iter_nth: no element is skipped
Iter_nth_no_skip(S, it, n) == Iter_next(S, it)

Iter_nth(S, it, n) ==
  LET it1 == [it EXCEPT !.next_index = Min2(it.next_index + n, Iter_len(it))]
  IN  IF Iter_len(it) = 0 \/ it1.next_index > it1.next_rev_index
        THEN Step(it1, <<>>, ~Iter_assert_invariants(it1))
        ELSE LET it2 == [it1 EXCEPT !.next_index = @ + 1]
             IN  Step(it2, Range_at(S, it.range, it1.next_index),
                      ~Iter_assert_invariants(it2))

\* faulty variant of Iter_next_back: the back cursor stays at 0 when it
\* cannot be decremented
Iter_next_back_stuck(S, it) ==
  IF Iter_len(it) = 0 \/ it.next_rev_index < it.next_index
    THEN Step(it, <<>>, FALSE)
    ELSE Step([it EXCEPT !.next_rev_index = IF @ = 0 THEN 0 ELSE @ - 1],
              Range_at(S, it.range, it.next_rev_index), FALSE)

Iter_next_back(S, it) ==
  IF Iter_len(it) = 0 \/ it.next_rev_index < it.next_index
    THEN Step(it, <<>>, FALSE)
    ELSE LET it1 == IF it.next_rev_index = 0
                      THEN [it EXCEPT !.next_index = @ + 1]
                      ELSE [it EXCEPT !.next_rev_index = @ - 1]
         IN  Step(it1, Range_at(S, it.range, it.next_rev_index),
                  ~Iter_assert_invariants(it1))

Iter_nth_back_at(S, it1) ==
  IF Iter_len(it1) = 0 \/ it1.next_rev_index < it1.next_index
    THEN Step(it1, <<>>, ~Iter_assert_invariants(it1))
    ELSE LET it2 == IF it1.next_rev_index = 0
                      THEN [it1 EXCEPT !.next_index = @ + 1]
                      ELSE [it1 EXCEPT !.next_rev_index = @ - 1]
         IN  Step(it2, Range_at(S, it1.range, it1.next_rev_index),
                  ~Iter_assert_invariants(it2))

\* nth_back: the back cursor is moved down by n, stopping at 0
\* (saturating_sub), and the element under it is returned
Iter_nth_back(S, it, n) ==
  Iter_nth_back_at(S, [it EXCEPT !.next_rev_index = IF @ >= n THEN @ - n ELSE 0])

\* the consuming shortcuts of Iter (lib.rs:1427-1459); usize subtraction
\* cannot wrap here because next_index never exceeds the length
Iter_count(it) == Iter_len(it) - it.next_index

Iter_last(S, it) ==
  IF Iter_len(it) = 0 THEN <<>> ELSE Range_at(S, it.range, Iter_len(it) - 1)

Iter_max(S, it) ==
  IF Iter_len(it) = 0 THEN <<>> ELSE Range_at(S, it.range, Iter_len(it) - 1)

Iter_min(S, it) == Range_at(S, it.range, 0)

\* (lower, upper), upper being Some(remaining_count)
Iter_size_hint(it) ==
  <<Iter_len(it) - it.next_index, <<Iter_len(it) - it.next_index>> >>

\* RotatedArraySet::iter
iter_of(S) == Iter_new(Range_new(S))

\* a bound of a range of values (std::ops::Bound)
Unbounded == [kind |-> "Unbounded", v |-> 0]
Included(v) == [kind |-> "Included", v |-> v]
Excluded(v) == [kind |-> "Excluded", v |-> v]

\* the two explicit panics at the head of get_range
get_range_rejects(lo, hi) ==
  \/ lo.kind = "Excluded" /\ hi.kind = "Excluded" /\ lo.v = hi.v
  \/ lo.kind # "Unbounded" /\ hi.kind # "Unbounded" /\ lo.v > hi.v

\* the start index chosen from the start bound and the Result fs of
\* find_raw_index on its value
start_index_of(lo, fs) ==
  CASE lo.kind = "Unbounded" -> 0
    [] lo.kind = "Included" -> fs.idx
    [] lo.kind = "Excluded" -> IF fs.ok THEN fs.idx + 1 ELSE fs.idx

\* the end index chosen from the end bound and the Result fe of
\* find_raw_index on its value
end_index_of(S, hi, fe) ==
  CASE hi.kind = "Unbounded" -> len(S)
    [] hi.kind = "Included" -> IF fe.ok THEN fe.idx + 1 ELSE fe.idx
    [] hi.kind = "Excluded" -> fe.idx

get_range_found(S, lo, hi, fs, fe) ==
  LET r == Range_with_bounds(S, start_index_of(lo, fs), end_index_of(S, hi, fe))
  IN  [range |-> r.range,
       panic |-> \/ r.panic
                 \/ (lo.kind # "Unbounded" /\ fs.unreachable)
                 \/ (hi.kind # "Unbounded" /\ fe.unreachable)]

get_range(S, lo, hi) ==
  IF get_range_rejects(lo, hi)
    THEN [range |-> Range_new(S), panic |-> TRUE]
    ELSE get_range_found(S, lo, hi, find_raw_index(S, lo.v), find_raw_index(S, hi.v))

\* Iter::new on the Range r.range that get_range returned
range_iter(r) == [it |-> Iter_new(r.range), panic |-> r.panic]

\* RotatedArraySet::range
range(S, lo, hi) == range_iter(get_range(S, lo, hi))

\* the values a for loop (or collect) draws from an iterator: next() until it
\* returns None
RECURSIVE Drain(_, _)
\* r is the result of the call of next() just made
Drain_after(S, r) == IF r.ret = <<>> THEN <<>> ELSE r.ret \o Drain(S, r.it)

Drain(S, it) == Drain_after(S, Iter_next(S, it))

\* -------------------------------------------------- set-algebra iterators
\* std::iter::Peekable over an Iter: peeked is <<>> when nothing is buffered
\* and <<r>> when the Option r returned by the inner next() is buffered
Peekable_new(it) == [iter |-> it, peeked |-> <<>>]

PStep(p, ret, panic) == [p |-> p, ret |-> ret, panic |-> panic]

Peekable_peek(C, p) ==
  IF p.peeked # <<>>
    THEN PStep(p, p.peeked[1], FALSE)
    ELSE LET r == Iter_next(C, p.iter)
         IN  PStep([iter |-> r.it, peeked |-> <<r.ret>>], r.ret, r.panic)

Peekable_next(C, p) ==
  IF p.peeked # <<>>
    THEN PStep([p EXCEPT !.peeked = <<>>], p.peeked[1], FALSE)
    ELSE LET r == Iter_next(C, p.iter)
         IN  PStep([p EXCEPT !.iter = r.it], r.ret, r.panic)

\* compares x and y, but short if x is None and long if y is None
cmp_opt(x, y, short, long) ==
  IF x = <<>> THEN short
  ELSE IF y = <<>> THEN long
  ELSE IF x[1] < y[1] THEN "Less"
  ELSE IF x[1] = y[1] THEN "Equal"
  ELSE "Greater"

\* a Difference or an Intersection holds one Iter (field a) and looks the
\* values up in the other set; a SymmetricDifference or a Union holds two
\* Peekables, a over self and b over other
difference(S, O) == [a |-> iter_of(S)]

symmetric_difference(S, O) ==
  [a |-> Peekable_new(iter_of(S)), b |-> Peekable_new(iter_of(O))]

\* small_is_self tells which of the two sets the Iter walks
intersection(S, O) ==
  IF len(S) <= len(O)
    THEN [a |-> iter_of(S), small_is_self |-> TRUE]
    ELSE [a |-> iter_of(O), small_is_self |-> FALSE]

union(S, O) ==
  [a |-> Peekable_new(iter_of(S)), b |-> Peekable_new(iter_of(O))]

\* the result of one call of next() on a set-algebra iterator
AStep(st, ret, panic) == [st |-> st, ret |-> ret, panic |-> panic]

\* faulty variant of Difference_next: the first value of self is returned
\* without looking it up in other
Difference_next_no_lookup(S, O, st) ==
  LET r == Iter_next(S, st.a)
  IN  AStep([st EXCEPT !.a = r.it], r.ret, r.panic)

RECURSIVE Difference_next(_, _, _)
Difference_next(S, O, st) ==
  LET r == Iter_next(S, st.a)
      st1 == [st EXCEPT !.a = r.it]
  IN  IF r.ret = <<>> THEN AStep(st1, <<>>, r.panic)
      ELSE IF ~contains(O, r.ret[1]) THEN AStep(st1, r.ret, r.panic)
      ELSE LET more == Difference_next(S, O, st1)
           IN  AStep(more.st, more.ret, r.panic \/ more.panic)

RECURSIVE SymmetricDifference_next(_, _, _)
SymmetricDifference_next(S, O, st) ==
  LET pa == Peekable_peek(S, st.a)
      pb == Peekable_peek(O, st.b)
      ord == cmp_opt(pa.ret, pb.ret, "Greater", "Less")
      na == Peekable_next(S, pa.p)
      nb == Peekable_next(O, pb.p)
      peeks == pa.panic \/ pb.panic
  IN  CASE ord = "Less" ->
             AStep([a |-> na.p, b |-> pb.p], na.ret, peeks \/ na.panic)
        [] ord = "Equal" ->
             LET more == SymmetricDifference_next(S, O, [a |-> na.p, b |-> nb.p])
             IN  AStep(more.st, more.ret, peeks \/ na.panic \/ nb.panic \/ more.panic)
        [] ord = "Greater" ->
             AStep([a |-> pa.p, b |-> nb.p], nb.ret, peeks \/ nb.panic)

\* faulty variant of Intersection_next_in: the large set is not probed
Intersection_next_no_lookup(small, large, st) ==
  AStep([st EXCEPT !.a = Iter_next(small, st.a).it], Iter_next(small, st.a).ret, FALSE)

RECURSIVE Intersection_next_in(_, _, _)
Intersection_next_in(small, large, st) ==
  LET r == Iter_next(small, st.a)
      st1 == [st EXCEPT !.a = r.it]
  IN  IF r.ret = <<>> THEN AStep(st1, <<>>, r.panic)
      ELSE IF contains(large, r.ret[1]) THEN AStep(st1, r.ret, r.panic)
      ELSE LET more == Intersection_next_in(small, large, st1)
           IN  AStep(more.st, more.ret, r.panic \/ more.panic)

Intersection_next(S, O, st) ==
  IF st.small_is_self THEN Intersection_next_in(S, O, st)
                      ELSE Intersection_next_in(O, S, st)

\* faulty variant of Union_next: a value found in both sets is taken from a
\* only, and stays in b
Union_next_keep_b(S, O, st) ==
  LET pa == Peekable_peek(S, st.a)
      pb == Peekable_peek(O, st.b)
      ord == cmp_opt(pa.ret, pb.ret, "Greater", "Less")
      na == Peekable_next(S, pa.p)
      nb == Peekable_next(O, pb.p)
  IN  IF ord \in {"Less", "Equal"}
        THEN AStep([a |-> na.p, b |-> pb.p], na.ret, FALSE)
        ELSE AStep([a |-> pa.p, b |-> nb.p], nb.ret, FALSE)

Union_next(S, O, st) ==
  LET pa == Peekable_peek(S, st.a)
      pb == Peekable_peek(O, st.b)
      ord == cmp_opt(pa.ret, pb.ret, "Greater", "Less")
      na == Peekable_next(S, pa.p)
      nb == Peekable_next(O, pb.p)
      peeks == pa.panic \/ pb.panic
  IN  CASE ord = "Less" ->
             AStep([a |-> na.p, b |-> pb.p], na.ret, peeks \/ na.panic)
        [] ord = "Equal" ->
             AStep([a |-> na.p, b |-> nb.p], na.ret, peeks \/ nb.panic \/ na.panic)
        [] ord = "Greater" ->
             AStep([a |-> pa.p, b |-> nb.p], nb.ret, peeks \/ nb.panic)

\* the values the Intersection iterator yields until it returns None
RECURSIVE Intersection_collect(_, _, _)
\* r is the result of the call of next() just made
Intersection_collect_after(S, O, r) ==
  IF r.ret = <<>> THEN <<>> ELSE r.ret \o Intersection_collect(S, O, r.st)

Intersection_collect(S, O, st) ==
  Intersection_collect_after(S, O, Intersection_next(S, O, st))

\* ---------------------------------------------------------- set relations
is_disjoint(S, O) == Intersection_next(S, O, intersection(S, O)).ret = <<>>

\* faulty variant of is_subset: only the lengths are compared
is_subset_by_len(S, O) == ~(len(S) > len(O))

\* `for next in self`: the loop over self.iter() with its early return
RECURSIVE is_subset_loop(_, _, _)
\* r is the result of the call of next() just made
is_subset_loop_after(S, O, r) ==
  IF r.ret = <<>> THEN TRUE
  ELSE IF ~contains(O, r.ret[1]) THEN FALSE
  ELSE is_subset_loop(S, O, r.it)

is_subset_loop(S, O, it) == is_subset_loop_after(S, O, Iter_next(S, it))

is_subset(S, O) ==
  IF len(S) > len(O) THEN FALSE ELSE is_subset_loop(S, O, iter_of(S))

is_superset(S, O) == is_subset(O, S)

\* ----------------------------------------------------------- construction
\* slice::sort_unstable: the elements in ascending order, repeated ones kept
RECURSIVE sort_unstable(_)
sort_unstable(s) ==
  IF Len(s) = 0 THEN <<>>
  ELSE LET j == CHOOSE i \in 1 .. Len(s) : \A k \in 1 .. Len(s) : s[i] <= s[k]
       IN  <<s[j]>> \o sort_unstable(SubSeq(s, 1, j - 1) \o SubSeq(s, j + 1, Len(s)))

\* init: data is sorted as it stands, every pivot offset is 0 and the first
\* element of every subarray is pushed to min_data
init(S) ==
  IF Len(S.data) = 0
    THEN Outcome(S, FALSE, ~(Len(S.min_indexes) = 0 /\ Len(S.min_data) = 0))
    ELSE LET d == sort_unstable(S.data)
             last_subarray_idx == get_subarray_idx_from_array_idx(Len(d) - 1)
         IN  Outcome([data |-> d,
                      min_indexes |-> [i \in 1 .. last_subarray_idx + 1 |-> 0],
                      min_data |-> S.min_data \o
                                   [i \in 1 .. last_subarray_idx + 1 |->
                                      At(d, get_array_idx_from_subarray_idx(i - 1))]],
                     FALSE, ~(Len(S.min_indexes) = 0 /\ Len(S.min_data) = 0))

\* From<Vec<T>>, From<&[T]> and FromIterator: the values are taken as they
\* come and init() is called
from_vec(vec) == init([data |-> vec, min_indexes |-> <<>>, min_data |-> <<>>])

\* iterator.cloned().collect() on an Iter
collect(S, it) == from_vec(Drain(S, it))

\* split_off: [set |-> self after the call, ret |-> the returned set, panic]
split_off_rebuild(S, tail, tail_set) ==
  Outcome(truncate(S, len(S) - Iter_len(tail.it)), tail_set.set,
          tail.panic \/ tail_set.panic)

split_off_tail(S, tail) ==
  IF Iter_len(tail.it) = 0
    THEN Outcome(S, EmptySet, tail.panic)
  ELSE IF Iter_len(tail.it) = len(S)
    THEN Outcome(EmptySet, S, tail.panic)
  ELSE split_off_rebuild(S, tail, collect(S, tail.it))

split_off(S, value) == split_off_tail(S, range(S, Included(value), Unbounded))

\* the values the Union iterator yields until it returns None, as collect()
\* draws them: [vec, panic]
RECURSIVE Union_collect(_, _, _)
Union_cons(r, rest) == [vec |-> r.ret \o rest.vec, panic |-> r.panic \/ rest.panic]

\* r is the result of the call of next() just made
Union_collect_after(S, O, r) ==
  IF r.ret = <<>> THEN [vec |-> <<>>, panic |-> r.panic]
  ELSE Union_cons(r, Union_collect(S, O, r.st))

Union_collect(S, O, st) == Union_collect_after(S, O, Union_next(S, O, st))

\* append: [set |-> self after the call, other |-> other after the call, panic]
append_swap(O, drawn, built) ==
  [set |-> built.set, other |-> clear(O), panic |-> drawn.panic \/ built.panic]

\* faulty variant of append: other is not emptied
append_keep_other(S, O) ==
  [set |-> from_vec(Union_collect(S, O, union(S, O)).vec).set, other |-> O,
   panic |-> FALSE]

append_collected(O, drawn) == append_swap(O, drawn, from_vec(drawn.vec))

append(S, O) == append_collected(O, Union_collect(S, O, union(S, O)))

\* faulty variant of Into<Vec>: the data array is handed over as stored
into_vec_as_stored(S) == S.data

\* Into<Vec<T>>: every subarray is rotated left by its pivot offset, in
\* place, and the data array is handed over; d is the data array after the
\* subarrays before i have been rotated
RECURSIVE into_vec_from(_, _, _)
into_vec_from(S, d, i) ==
  IF i >= Len(S.min_indexes) THEN d
  ELSE LET pivot_offset == At(S.min_indexes, i)
           subarray_start_idx == get_array_idx_from_subarray_idx(i)
           subarray_len == IF i = Len(S.min_indexes) - 1
                             THEN Len(d) - subarray_start_idx
                             ELSE i + 1
           subarray_end_idx == subarray_start_idx + subarray_len
           subarray == Slice(d, subarray_start_idx, subarray_end_idx)
       IN  into_vec_from(S, Splice(d, subarray_start_idx,
                                   RotateLeft(subarray, pivot_offset)), i + 1)

into_vec(S) == into_vec_from(S, S.data, 0)

\* faulty variant of eq: the stored fields are compared, not the elements by rank
eq_by_layout(S, O) ==
  /\ S.data = O.data
  /\ S.min_indexes = O.min_indexes
  /\ S.min_data = O.min_data

\* PartialEq::eq: equal lengths and equal select(i) for every i
eq(S, O) ==
  IF len(S) # len(O) THEN FALSE
  ELSE \A i \in 0 .. len(S) - 1 : select(S, i)[1] = select(O, i)[1]

\* Hash::hash: what is fed to the hasher, select(i) for every i in order
hash(S) == [i \in 1 .. len(S) |-> select(S, i - 1)]

\* ------------------------------------------------- vocabulary of the claims
\* T(i), the first offset of subarray i
T(i) == (i * (i + 1)) \div 2

\* the occupied window of subarray i: data[T(i) .. min(T(i+1), len))
Window(S, i) == Slice(S.data, T(i), Min2(T(i + 1), Len(S.data)))

\* subarray i read from its pivot offset with cyclic wraparound
ReadFromPivot(S, i) ==
  LET w == Window(S, i)
      p == At(S.min_indexes, i)
  IN  [j \in 1 .. Len(w) |-> w[((p + j - 1) % Len(w)) + 1]]

RECURSIVE ConcatFrom(_, _)
ConcatFrom(S, i) ==
  IF i >= Len(S.min_indexes) THEN <<>> ELSE ReadFromPivot(S, i) \o ConcatFrom(S, i + 1)

\* the logical sequence: subarrays 0..k-1 in order, each read from its pivot
LogicalSeq(S) == ConcatFrom(S, 0)

StrictlyAscending(s) == \A i \in 1 .. Len(s) - 1 : s[i] < s[i + 1]

Range(s) == {s[i] : i \in 1 .. Len(s)}

\* the ascending sequence of a finite set of integers
RECURSIVE AscendingSeqOf(_)
AscendingSeqOf(X) ==
  IF X = {} THEN <<>>
  ELSE LET m == CHOOSE x \in X : \A y \in X : x <= y
       IN  <<m>> \o AscendingSeqOf(X \ {m})

CountLess(X, v) == Cardinality({x \in X : x < v})

\* the elements of a sequence in reverse order
Reverse(s) == [i \in 1 .. Len(s) |-> s[Len(s) + 1 - i]]

IsPrefix(p, s) == Len(p) <= Len(s) /\ p = SubSeq(s, 1, Len(p))

\* a value lies within a pair of bounds
WithinBounds(x, lo, hi) ==
  /\ CASE lo.kind = "Unbounded" -> TRUE
        [] lo.kind = "Included" -> lo.v <= x
        [] lo.kind = "Excluded" -> lo.v < x
  /\ CASE hi.kind = "Unbounded" -> TRUE
        [] hi.kind = "Included" -> x <= hi.v
        [] hi.kind = "Excluded" -> x < hi.v

\* the mathematical set operation named by kind
SetOperation(kind, A, B) ==
  CASE kind = "difference" -> A \ B
    [] kind = "symmetric_difference" -> (A \ B) \cup (B \ A)
    [] kind = "intersection" -> A \cap B
    [] kind = "union" -> A \cup B
    [] OTHER -> {}

\* the start bound is greater than the end bound
StartExceedsEnd(lo, hi) ==
  lo.kind # "Unbounded" /\ hi.kind # "Unbounded" /\ lo.v > hi.v

BothExcludedAndEqual(lo, hi) ==
  lo.kind = "Excluded" /\ hi.kind = "Excluded" /\ lo.v = hi.v

\* the slot of the minimum and of the maximum of the full subarray j
MinSlot(S, j) == T(j) + At(S.min_indexes, j)

MaxSlot(S, j) ==
  T(j) + (IF At(S.min_indexes, j) = 0 THEN j ELSE At(S.min_indexes, j) - 1)

MinOf(S, j) == CHOOSE x \in Range(Window(S, j)) : \A y \in Range(Window(S, j)) : x <= y

MaxOf(S, j) == CHOOSE x \in Range(Window(S, j)) : \A y \in Range(Window(S, j)) : y <= x

\* the subarray that receives an absent value v
InsertTarget(S, v) == get_subarray_idx_from_array_idx(find_raw_index(S, v).idx)

\* the last call was an insert of a new value whose target was a full subarray
InsertedIntoFull ==
  /\ last.op = "insert" /\ last.ret
  /\ InsertTarget(last.pre, last.arg) < Len(last.pre.min_indexes)
  /\ \/ InsertTarget(last.pre, last.arg) < Len(last.pre.min_indexes) - 1
     \/ is_last_subarray_full(last.pre)

\* the subarrays after subarray t that a propagation passes through: all the
\* later ones but a partially filled last one
After(S, t) ==
  {j \in (t + 1) .. (Len(S.min_indexes) - 1) :
     j < Len(S.min_indexes) - 1 \/ is_last_subarray_full(S)}

\* ---------------------------------------------------------- state machine
\* no Iter is open and none has been asked for
NoIter ==
  [open |-> FALSE, by |-> "none", call |-> "none", arg |-> 0, ret |-> <<>>,
   panic |-> FALSE, valid |-> TRUE, it |-> iter_of(EmptySet), want |-> <<>>,
   front |-> <<>>, back |-> <<>>, sawNone |-> FALSE, calls |-> 0,
   stepsOnly |-> TRUE]

\* no set-algebra iterator is open
NoAlg ==
  [open |-> FALSE, kind |-> "none", st |-> difference(EmptySet, EmptySet),
   out |-> <<>>, ret |-> <<>>, panic |-> FALSE, sawNone |-> FALSE]

NoRoundtrip == [stage |-> "none", v |-> 0, fresh |-> FALSE, before |-> <<>>]

\* RotatedArraySet::new()
Init ==
  /\ data = <<>>
  /\ min_indexes = <<>>
  /\ min_data = <<>>
  /\ last = [op |-> "new", arg |-> 0, ret |-> FALSE, panic |-> FALSE, pre |-> EmptySet]
  /\ present = {}
  /\ roundtrip = NoRoundtrip
  /\ iter = NoIter
  /\ other = EmptySet
  /\ alg = NoAlg

Install(S) ==
  /\ data' = S.data
  /\ min_indexes' = S.min_indexes
  /\ min_data' = S.min_data

Insert ==
  \E v \in Values :
    LET r == insert(Self, v)
    IN  /\ Install(r.set)
        /\ last' = [op |-> "insert", arg |-> v, ret |-> r.ret, panic |-> r.panic,
                    pre |-> Self]
        /\ present' = present \cup {v}
        /\ roundtrip' = [stage |-> "inserted", v |-> v, fresh |-> r.ret,
                         before |-> LogicalSeq(Self)]
        /\ UNCHANGED viewVars

Remove ==
  \E v \in Values :
    LET r == remove(Self, v)
    IN  /\ Install(r.set)
        /\ last' = [op |-> "remove", arg |-> v, ret |-> r.ret, panic |-> r.panic,
                    pre |-> Self]
        /\ present' = present \ {v}
        /\ roundtrip' = IF roundtrip.stage = "inserted" /\ roundtrip.v = v
                           THEN [roundtrip EXCEPT !.stage = "removed"]
                           ELSE NoRoundtrip
        /\ UNCHANGED viewVars

Take ==
  \E v \in Values :
    \E r \in {take(Self, v)} :
      /\ Install(r.set)
      /\ last' = [op |-> "take", arg |-> v, ret |-> r.ret, panic |-> r.panic,
                  pre |-> Self]
      /\ present' = present \ {v}
      /\ roundtrip' = NoRoundtrip
      /\ UNCHANGED viewVars

Truncate ==
  \E n \in 0 .. (Len(data) + 1) :
    /\ Install(truncate(Self, n))
    /\ last' = [op |-> "truncate", arg |-> n, ret |-> FALSE,
                panic |-> ~assert_invariants(truncate(Self, n)), pre |-> Self]
    /\ present' = {x \in present : Cardinality({y \in present : y < x}) < n}
    /\ roundtrip' = NoRoundtrip
    /\ UNCHANGED viewVars

Clear ==
  /\ Install(clear(Self))
  /\ last' = [op |-> "clear", arg |-> 0, ret |-> FALSE, panic |-> FALSE, pre |-> Self]
  /\ present' = {}
  /\ roundtrip' = NoRoundtrip
  /\ UNCHANGED viewVars

Next == Insert \/ Remove \/ Take \/ Truncate \/ Clear

Spec == Init /\ [][Next]_vars

\* ------------------------------------------- state machine of an open Iter
\* The container is built by insert and remove; iter() or range() borrows it,
\* and while the Iter lives the container cannot be changed.
IterValues == 5

IterDomain == 0 .. (IterValues - 1)

Bounds == {Unbounded} \cup {Included(v) : v \in IterDomain}
                      \cup {Excluded(v) : v \in IterDomain}

IterInsert ==
  /\ ~iter.open
  /\ \E v \in IterDomain : Install(insert(Self, v).set)
  /\ iter' = NoIter
  /\ UNCHANGED <<callVars, other, alg>>

IterRemove ==
  /\ ~iter.open
  /\ \E v \in IterDomain : Install(remove(Self, v).set)
  /\ iter' = NoIter
  /\ UNCHANGED <<callVars, other, alg>>

\* let it = set.iter()
IterOpen ==
  /\ ~iter.open
  /\ iter' = [NoIter EXCEPT !.open = TRUE, !.by = "iter", !.call = "iter",
                            !.it = iter_of(Self),
                            !.want = AscendingSeqOf(Range(data))]
  /\ UNCHANGED <<setVars, callVars, other, alg>>

\* let it = set.range((lo, hi)); no Iter exists after a panic
RangeOpen ==
  /\ ~iter.open
  /\ \E lo \in Bounds, hi \in Bounds :
       LET r == range(Self, lo, hi)
       IN  iter' = [NoIter EXCEPT
                      !.open = ~r.panic, !.by = "range", !.call = "range",
                      !.panic = r.panic,
                      !.valid = ~(StartExceedsEnd(lo, hi) \/ BothExcludedAndEqual(lo, hi)),
                      !.it = IF r.panic THEN iter_of(EmptySet) ELSE r.it,
                      !.want = AscendingSeqOf({x \in Range(data) : WithinBounds(x, lo, hi)})]
  /\ UNCHANGED <<setVars, callVars, other, alg>>

Called(name, n, r, stepsOnly) ==
  [iter EXCEPT !.call = name, !.arg = n, !.ret = r.ret, !.panic = r.panic,
               !.it = r.it, !.sawNone = @ \/ r.ret = <<>>,
               !.calls = Min2(@ + 1, 2), !.stepsOnly = @ /\ stepsOnly]

\* it.next()
IterNext ==
  /\ iter.open
  /\ LET r == Iter_next(Self, iter.it)
     IN  iter' = [Called("next", 0, r, TRUE) EXCEPT !.front = @ \o r.ret]
  /\ UNCHANGED <<setVars, callVars, other, alg>>

\* it.next_back()
IterNextBack ==
  /\ iter.open
  /\ LET r == Iter_next_back(Self, iter.it)
     IN  iter' = [Called("next_back", 0, r, TRUE) EXCEPT !.back = @ \o r.ret]
  /\ UNCHANGED <<setVars, callVars, other, alg>>

\* it.nth(n)
IterNth ==
  /\ iter.open
  /\ \E n \in 0 .. IterValues :
       LET r == Iter_nth(Self, iter.it, n)
       IN  iter' = [Called("nth", n, r, FALSE) EXCEPT !.front = @ \o r.ret]
  /\ UNCHANGED <<setVars, callVars, other, alg>>

\* it.nth_back(n)
IterNthBack ==
  /\ iter.open
  /\ \E n \in 0 .. IterValues :
       \E r \in {Iter_nth_back(Self, iter.it, n)} :
         iter' = [Called("nth_back", n, r, FALSE) EXCEPT !.back = @ \o r.ret]
  /\ UNCHANGED <<setVars, callVars, other, alg>>

\* the Iter goes out of scope
IterDrop ==
  /\ iter.open
  /\ iter' = NoIter
  /\ UNCHANGED <<setVars, callVars, other, alg>>

NextIter ==
  \/ IterInsert \/ IterRemove \/ IterOpen \/ RangeOpen
  \/ IterNext \/ IterNextBack \/ IterNth \/ IterDrop

SpecIter == Init /\ [][NextIter]_vars

\* the same container and Iter, the Iter driven by next(), next_back() and
\* nth_back()
NextIterBack ==
  \/ IterInsert \/ IterRemove \/ IterOpen \/ RangeOpen
  \/ IterNext \/ IterNextBack \/ IterNthBack \/ IterDrop

SpecIterBack == Init /\ [][NextIterBack]_vars

\* ------------------------------------------- state machine of two sets
\* Two containers are built by insert and remove; a set operation borrows
\* both, and while its iterator lives neither can be changed. split_off cuts
\* the first container and hands the tail over as the second.
AlgValues == 5

AlgDomain == 0 .. (AlgValues - 1)

Built == [op |-> "built", arg |-> 0, ret |-> FALSE, panic |-> FALSE, pre |-> EmptySet]

AlgInsert ==
  /\ ~alg.open
  /\ \E v \in AlgDomain : Install(insert(Self, v).set)
  /\ last' = Built /\ alg' = NoAlg
  /\ UNCHANGED <<present, roundtrip, iter, other>>

AlgRemove ==
  /\ ~alg.open
  /\ \E v \in AlgDomain : Install(remove(Self, v).set)
  /\ last' = Built /\ alg' = NoAlg
  /\ UNCHANGED <<present, roundtrip, iter, other>>

OtherInsert ==
  /\ ~alg.open
  /\ \E v \in AlgDomain : other' = insert(other, v).set
  /\ last' = Built /\ alg' = NoAlg
  /\ UNCHANGED <<setVars, present, roundtrip, iter>>

OtherRemove ==
  /\ ~alg.open
  /\ \E v \in AlgDomain : other' = remove(other, v).set
  /\ last' = Built /\ alg' = NoAlg
  /\ UNCHANGED <<setVars, present, roundtrip, iter>>

\* let other = set.split_off(&v)
SplitOff ==
  /\ ~alg.open
  /\ \E v \in AlgDomain :
       \E r \in {split_off(Self, v)} :
           /\ Install(r.set)
           /\ other' = r.ret
           /\ last' = [op |-> "split_off", arg |-> v, ret |-> FALSE, panic |-> r.panic,
                       pre |-> Self]
  /\ alg' = NoAlg
  /\ UNCHANGED <<present, roundtrip, iter>>

\* set.append(&mut other)
AppendCall ==
  /\ ~alg.open
  /\ \E r \in {append(Self, other)} :
       /\ Install(r.set)
       /\ other' = r.other
       /\ last' = [op |-> "append", arg |-> other, ret |-> FALSE, panic |-> r.panic,
                   pre |-> Self]
  /\ alg' = NoAlg
  /\ UNCHANGED <<present, roundtrip, iter>>

Opened(kind, st) == [NoAlg EXCEPT !.open = TRUE, !.kind = kind, !.st = st]

Borrowed == last' = Built /\ UNCHANGED <<setVars, present, roundtrip, iter, other>>

DifferenceOpen ==
  ~alg.open /\ alg' = Opened("difference", difference(Self, other)) /\ Borrowed

SymmetricDifferenceOpen ==
  /\ ~alg.open
  /\ alg' = Opened("symmetric_difference", symmetric_difference(Self, other))
  /\ Borrowed

IntersectionOpen ==
  ~alg.open /\ alg' = Opened("intersection", intersection(Self, other)) /\ Borrowed

UnionOpen ==
  ~alg.open /\ alg' = Opened("union", union(Self, other)) /\ Borrowed

Yielded(r) ==
  [alg EXCEPT !.st = r.st, !.ret = r.ret, !.panic = r.panic, !.out = @ \o r.ret,
              !.sawNone = @ \/ r.ret = <<>>]

DifferenceNext ==
  /\ alg.open /\ alg.kind = "difference"
  /\ \E r \in {Difference_next(Self, other, alg.st)} : alg' = Yielded(r)
  /\ Borrowed

SymmetricDifferenceNext ==
  /\ alg.open /\ alg.kind = "symmetric_difference"
  /\ \E r \in {SymmetricDifference_next(Self, other, alg.st)} : alg' = Yielded(r)
  /\ Borrowed

IntersectionNext ==
  /\ alg.open /\ alg.kind = "intersection"
  /\ \E r \in {Intersection_next(Self, other, alg.st)} : alg' = Yielded(r)
  /\ Borrowed

UnionNext ==
  /\ alg.open /\ alg.kind = "union"
  /\ \E r \in {Union_next(Self, other, alg.st)} : alg' = Yielded(r)
  /\ Borrowed

\* the iterator goes out of scope
AlgDrop == alg.open /\ alg' = NoAlg /\ Borrowed

NextAlgebra ==
  \/ AlgInsert \/ AlgRemove \/ OtherInsert \/ OtherRemove \/ SplitOff \/ AppendCall
  \/ DifferenceOpen \/ SymmetricDifferenceOpen \/ IntersectionOpen \/ UnionOpen
  \/ DifferenceNext \/ SymmetricDifferenceNext \/ IntersectionNext \/ UnionNext
  \/ AlgDrop

SpecAlgebra == Init /\ [][NextAlgebra]_vars

\* ------------------------------------------ state machine of construction
\* A container is built from a vector of values, in any order and with
\* repeated values.
FromValues == 3

MaxVecLen == 4

RECURSIVE SeqsUpTo(_, _)
SeqsUpTo(X, n) ==
  IF n = 0 THEN {<<>>}
  ELSE LET shorter == SeqsUpTo(X, n - 1)
       IN  shorter \cup {Append(s, x) : s \in shorter, x \in X}

\* RotatedArraySet::from(vec)
FromVec ==
  \E vec \in SeqsUpTo(0 .. (FromValues - 1), MaxVecLen) :
    LET r == from_vec(vec)
    IN  /\ Install(r.set)
        /\ last' = [op |-> "from", arg |-> vec, ret |-> FALSE, panic |-> r.panic,
                    pre |-> EmptySet]
        /\ UNCHANGED <<present, roundtrip, viewVars>>

NextFrom == FromVec

SpecFrom == Init /\ [][NextFrom]_vars

\* ------------------------------------- state machine of the offset arithmetic
\* integer_sum_inverse is a function of the offset alone: an offset is drawn
\* and the function is applied to it, with either value the float square
\* root can truncate to.
MaxOffset == 66

InitInverse ==
  /\ data = <<>> /\ min_indexes = <<>> /\ min_data = <<>>
  /\ \E n \in 0 .. MaxOffset :
       last = [op |-> "offset", arg |-> n, ret |-> 0, tmp |-> 0]
  /\ present = {}
  /\ roundtrip = NoRoundtrip
  /\ iter = NoIter /\ other = EmptySet /\ alg = NoAlg

IntegerSumInverse ==
  /\ last.op = "offset"
  /\ \E tmp \in floaty_as_usize(last.arg) :
       last' = [op |-> "integer_sum_inverse", arg |-> last.arg,
                ret |-> integer_sum_inverse_with(last.arg, tmp), tmp |-> tmp]
  /\ UNCHANGED <<setVars, present, roundtrip, viewVars>>

NextInverse == IntegerSumInverse

SpecInverse == InitInverse /\ [][NextInverse]_vars

\* ----------------------------------------------------------------- claims
\* C1: after any sequence of insert, remove, truncate and clear calls, every
\* subarray read from its pivot offset with cyclic wraparound is strictly
\* ascending, every value of subarray i is strictly less than every value of
\* subarray i+1, and so the subarrays read in order give a strictly ascending
\* sequence.
C1_LogicalOrder ==
  /\ \A i \in 0 .. Len(min_indexes) - 1 :
       /\ Len(Window(Self, i)) > 0
       /\ At(min_indexes, i) < Len(Window(Self, i))
       /\ StrictlyAscending(ReadFromPivot(Self, i))
  /\ \A i \in 0 .. Len(min_indexes) - 2 :
       \A x \in Range(Window(Self, i)) : \A y \in Range(Window(Self, i + 1)) : x < y
  /\ StrictlyAscending(LogicalSeq(Self))

\* a remove has just acted on a set of at least three subarrays and left a
\* rotated one
C1_Witness ==
  /\ last.op = "remove" /\ last.ret
  /\ Len(min_indexes) >= 3
  /\ At(min_indexes, 1) # 0
  /\ At(min_indexes, 2) # 0

\* C2: after any sequence of insert, remove, truncate and clear calls, for
\* every subarray i, min_indexes[i] <= i and lies in the occupied window,
\* min_data[i] = data[T(i) + min_indexes[i]] is the minimum of subarray i, and
\* min_data is strictly ascending; the container's own assert_invariants passes.
C2_MinCache ==
  /\ Len(min_data) = Len(min_indexes)
  /\ \A i \in 0 .. Len(min_indexes) - 1 :
       /\ At(min_indexes, i) <= i
       /\ At(min_indexes, i) < Len(Window(Self, i))
       /\ At(min_data, i) = At(data, T(i) + At(min_indexes, i))
       /\ \A x \in Range(Window(Self, i)) : At(min_data, i) <= x
  /\ StrictlyAscending(min_data)
  /\ assert_invariants(Self)

\* the minimum of subarray 0 has just been replaced by a remove that pulled
\* the minimum out of subarray 1
C2_Witness ==
  /\ last.op = "remove" /\ last.ret
  /\ Len(last.pre.min_indexes) >= 2
  /\ last.arg = At(last.pre.data, 0)
  /\ Len(min_indexes) >= 2

\* C3: insert(v) returns true exactly when v was not in the set before the
\* call; after a call that returns true the content is the old content plus v
\* and len() has grown by exactly one.
C3_Insert ==
  last.op = "insert" =>
    /\ last.ret = (last.arg \notin Range(last.pre.data))
    /\ last.ret =>
         /\ LogicalSeq(Self) = AscendingSeqOf(Range(last.pre.data) \cup {last.arg})
         /\ len(Self) = len(last.pre) + 1

\* an insert into the first subarray of a set whose three subarrays are all
\* full has returned true
C3_Witness ==
  /\ last.op = "insert" /\ last.ret
  /\ len(last.pre) = 6
  /\ last.arg < At(last.pre.data, 0)
  /\ Len(min_indexes) = 4

\* C4: remove(v) returns true exactly when v was in the set before the call;
\* after a call that returns true the content is the old content minus v, the
\* other elements in the same relative order, and len() has shrunk by one.
C4_Remove ==
  last.op = "remove" =>
    /\ last.ret = (last.arg \in Range(last.pre.data))
    /\ last.ret =>
         /\ LogicalSeq(Self) = AscendingSeqOf(Range(last.pre.data) \ {last.arg})
         /\ LogicalSeq(Self) = SelectSeq(LogicalSeq(last.pre), LAMBDA x : x # last.arg)
         /\ len(Self) = len(last.pre) - 1

\* a remove from the first subarray has returned true on a set whose last
\* subarray was full and rotated
C4_Witness ==
  /\ last.op = "remove" /\ last.ret
  /\ len(last.pre) = 6
  /\ At(last.pre.min_indexes, 2) # 0
  /\ last.arg = At(last.pre.data, 0)

\* C5: on every reachable set contains(v) is true exactly when v was inserted
\* and not since removed, and get(v) returns the stored value equal to v when
\* present and absence otherwise.
C5_Lookup ==
  \A v \in Values :
    /\ contains(Self, v) = (v \in present)
    /\ get(Self, v) = IF v \in present THEN <<v>> ELSE <<>>

\* lookups on a set of three subarrays, two of them rotated, that holds a value
\* above an absent one
C5_Witness ==
  /\ last.op \in {"insert", "remove"}
  /\ Len(min_indexes) >= 3
  /\ At(min_indexes, 1) # 0
  /\ At(min_indexes, 2) # 0
  /\ \E v \in Values \ present : \E w \in present : v < w

\* C6: insert(v) with v present and remove(v) with v absent return false and
\* leave data, min_indexes and min_data exactly as they were; remove on an
\* empty set returns false without fault.
C6_NoOp ==
  /\ (last.op = "insert" /\ last.arg \in Range(last.pre.data)) =>
       (~last.ret /\ ~last.panic /\ Self = last.pre)
  /\ (last.op = "remove" /\ last.arg \notin Range(last.pre.data)) =>
       (~last.ret /\ ~last.panic /\ Self = last.pre)
  /\ (last.op = "remove" /\ len(last.pre) = 0) =>
       (~last.ret /\ ~last.panic /\ Self = EmptySet)

\* remove has been called on the empty set
C6_Witness ==
  /\ last.op = "remove"
  /\ len(last.pre) = 0
  /\ ~last.ret

\* C7 as stated: for all v, insert(v) followed by remove(v) leaves the set
\* with the content it had before the two calls.
C7_InsertRemoveAnyValue ==
  roundtrip.stage = "removed" => LogicalSeq(Self) = roundtrip.before

\* C7 amended: for all v not in the set, insert(v) followed by remove(v)
\* leaves the set with the content it had before the two calls.
C7_InsertRemoveNewValue ==
  (roundtrip.stage = "removed" /\ roundtrip.fresh) =>
    /\ last.ret
    /\ LogicalSeq(Self) = roundtrip.before

\* a new value has been inserted into the first subarray of a set of three
\* full subarrays and removed again
C7_Witness ==
  /\ roundtrip.stage = "removed" /\ roundtrip.fresh
  /\ Len(roundtrip.before) = 6
  /\ roundtrip.v < roundtrip.before[1]

\* C8: rank and select are mutually inverse: select(rank(v).unwrap()) = Some(v)
\* for every element v, and rank(select(i).unwrap()) = Ok(i) for every i < len.
C8_RankSelect ==
  /\ \A v \in Range(data) :
       /\ rank(Self, v).ok
       /\ select(Self, rank(Self, v).idx) = <<v>>
  /\ \A i \in 0 .. len(Self) - 1 :
       /\ select(Self, i) # <<>>
       /\ rank(Self, select(Self, i)[1]) = [ok |-> TRUE, idx |-> i]

\* an insert has left six or more elements with two rotated subarrays
C8_Witness ==
  /\ last.op = "insert" /\ last.ret
  /\ len(Self) >= 6
  /\ At(min_indexes, 1) # 0
  /\ At(min_indexes, 2) # 0

\* C9: rank(v) for a value v that is not in the set returns Err(r) where r is
\* the number of elements strictly less than v.
C9_RankAbsent ==
  \A v \in Values \ Range(data) :
    rank(Self, v) = [ok |-> FALSE, idx |-> CountLess(Range(data), v)]

\* the insertion point of an absent value lies in the wrapped part (before the
\* pivot) of a rotated subarray
C9_Witness ==
  \E v \in Values \ Range(data) :
    LET f == find_raw_index(Self, v)
        i == get_subarray_idx_from_array_idx(f.idx)
    IN  /\ last.op \in {"insert", "remove"}
        /\ f.idx < len(Self)
        /\ At(min_indexes, i) # 0
        /\ f.idx < T(i) + At(min_indexes, i)

\* C10: on a set of n elements select(r) returns the element with exactly r
\* smaller elements for every r < n, and absence for every r >= n.
C10_Select ==
  \A r \in 0 .. NumValues + 1 :
    IF r < len(Self)
      THEN /\ select(Self, r) # <<>>
           /\ select(Self, r)[1] \in Range(data)
           /\ CountLess(Range(data), select(Self, r)[1]) = r
      ELSE select(Self, r) = <<>>

\* a remove has left a partially filled last subarray behind a rotated one
C10_Witness ==
  /\ last.op = "remove" /\ last.ret
  /\ Len(min_indexes) = 3
  /\ ~is_last_subarray_full(Self)
  /\ At(min_indexes, 1) # 0

\* C18: after any sequence of insert, remove and truncate calls, a last
\* subarray that is only partially filled has pivot offset 0: its window is
\* stored in plain ascending order.
C18_PartialLastUnrotated ==
  (Len(min_indexes) > 0 /\ ~is_last_subarray_full(Self))
    => /\ At(min_indexes, Len(min_indexes) - 1) = 0
       /\ StrictlyAscending(Window(Self, Len(min_indexes) - 1))

\* a truncate has cut into a rotated subarray, which is now the partially
\* filled last one
C18_Witness ==
  /\ last.op = "truncate"
  /\ Len(last.pre.min_indexes) = 3
  /\ Len(min_indexes) = 2
  /\ At(last.pre.min_indexes, 1) # 0
  /\ ~is_last_subarray_full(Self)

\* C19: min_indexes and min_data have the same length k, with k = 0 when the
\* set is empty and T(k-1) < n <= T(k) otherwise; the number of subarrays grows
\* only by an insert made while n = T(k), and a remove drops the last subarray
\* exactly when it leaves n = T(k-1).
C19_SubarrayCount ==
  LET k == Len(min_indexes)
      n == Len(data)
      kpre == Len(last.pre.min_indexes)
      npre == Len(last.pre.data)
  IN  /\ Len(min_data) = k
      /\ IF n = 0 THEN k = 0 ELSE k > 0 /\ T(k - 1) < n /\ n <= T(k)
      /\ last.op # "new" =>
            /\ k > kpre => (last.op = "insert" /\ k = kpre + 1 /\ npre = T(kpre))
            /\ (last.op = "insert" /\ last.ret /\ npre = T(kpre)) => k = kpre + 1
            /\ last.op = "remove" => (k < kpre <=> (k = kpre - 1 /\ last.ret /\ n = T(k)))
            /\ (last.op = "remove" /\ last.ret /\ n = T(kpre - 1)) => k = kpre - 1

\* a remove has emptied the one-element last subarray of a set of three
\* subarrays whose middle one is rotated
C19_Witness ==
  /\ last.op = "remove" /\ last.ret
  /\ Len(last.pre.min_indexes) = 3
  /\ Len(min_indexes) = 2
  /\ Len(data) = T(2)
  /\ At(last.pre.min_indexes, 1) # 0

\* C11: on every reachable set, an Iter from iter() driven by next() alone
\* yields every element once in strictly ascending order, driven by
\* next_back() alone it yields every element once in strictly descending
\* order, and the first call nth(i) on it returns select(i).
C11_IterOrder ==
  (iter.open /\ iter.by = "iter") =>
    /\ (iter.stepsOnly /\ iter.back = <<>>) =>
         /\ IsPrefix(iter.front, AscendingSeqOf(Range(data)))
         /\ iter.sawNone => iter.front = AscendingSeqOf(Range(data))
    /\ (iter.stepsOnly /\ iter.front = <<>>) =>
         /\ IsPrefix(iter.back, Reverse(AscendingSeqOf(Range(data))))
         /\ iter.sawNone => iter.back = Reverse(AscendingSeqOf(Range(data)))
    /\ (iter.call = "nth" /\ iter.calls = 1) =>
         /\ iter.ret = select(Self, iter.arg)
         /\ iter.arg < Len(data) =>
              iter.ret = <<AscendingSeqOf(Range(data))[iter.arg + 1]>>

\* an Iter over a set with a rotated subarray has been run backward to its
\* end
C11_Witness ==
  /\ iter.open /\ iter.by = "iter" /\ iter.stepsOnly
  /\ iter.front = <<>> /\ iter.sawNone /\ Len(iter.back) = IterValues
  /\ Len(min_indexes) = 3 /\ At(min_indexes, 1) # 0

\* C12: range(bounds), called on any reachable set with bounds whose start
\* does not exceed the end, yields exactly the elements of the set that lie
\* within the bounds, in ascending order.
C12_RangeYieldsBounded ==
  (iter.open /\ iter.by = "range" /\ iter.valid /\ iter.stepsOnly /\ iter.back = <<>>) =>
    /\ IsPrefix(iter.front, iter.want)
    /\ iter.sawNone => iter.front = iter.want

\* C20: range(bounds) panics when the start bound is greater than the end
\* bound or when both bounds are excluded and equal; for every other pair of
\* bounds, on every reachable set, it returns an iterator without panicking.
C20_RangePanicsOnlyOnBadBounds ==
  iter.call = "range" => (iter.panic <=> ~iter.valid)

\* C17: for an Iter over a range of m elements and any interleaving of next()
\* and next_back() calls, the calls that return a value return each of the m
\* logical positions exactly once (next() ascending from the start,
\* next_back() descending from the end), a call returns None only once all m
\* have been returned, and from then on both return None.
C17_Interleaving ==
  (iter.open /\ iter.stepsOnly) =>
    LET m == Iter_len(iter.it)
        first == iter.it.range.start_index_inclusive
        content == AscendingSeqOf(Range(data))
    IN  /\ Len(iter.front) + Len(iter.back) <= m
        /\ \A j \in 1 .. Len(iter.front) : iter.front[j] = content[first + j]
        /\ \A j \in 1 .. Len(iter.back) : iter.back[j] = content[first + m + 1 - j]
        /\ iter.sawNone => Len(iter.front) + Len(iter.back) = m
        /\ (iter.sawNone /\ iter.call \in {"next", "next_back"}) => iter.ret = <<>>

\* the cursors of an Iter over five elements have met after two next() and
\* three next_back() calls, and a further next() has returned None
C17_Witness ==
  /\ iter.open /\ iter.stepsOnly /\ iter.sawNone
  /\ Len(iter.front) = 2 /\ Len(iter.back) = 3
  /\ iter.call = "next" /\ iter.ret = <<>>
  /\ At(min_indexes, 1) # 0

\* C14: a container built from any finite sequence of values, in any order
\* and with repeated values, satisfies the structural invariants: every
\* subarray read from its pivot is strictly ascending, the logical sequence is
\* strictly ascending, every cached minimum is the value at the pivot, and the
\* cached minima are strictly ascending.
C14_FromAnySequence ==
  last.op = "from" =>
    /\ ~last.panic
    /\ Len(min_indexes) = Len(min_data)
    /\ \A i \in 0 .. Len(min_indexes) - 1 :
         /\ At(min_indexes, i) < Len(Window(Self, i))
         /\ At(min_data, i) = At(data, T(i) + At(min_indexes, i))
    /\ StrictlyAscending(LogicalSeq(Self))
    /\ StrictlyAscending(min_data)
    /\ Range(data) = Range(last.arg)

\* C13: split_off(v) on any reachable set leaves self holding exactly the
\* elements less than v and returns a new set holding exactly the elements
\* greater than or equal to v.
C13_SplitOff ==
  last.op = "split_off" =>
    /\ ~last.panic
    /\ LogicalSeq(Self) = AscendingSeqOf({x \in Range(last.pre.data) : x < last.arg})
    /\ LogicalSeq(other) = AscendingSeqOf({x \in Range(last.pre.data) : x >= last.arg})

\* C15: for any two reachable sets A and B, the iterators of A.difference(B),
\* A.intersection(B), A.union(B) and A.symmetric_difference(B) yield exactly
\* the elements of the mathematical set operation, in strictly ascending
\* order, each element once.
C15_SetAlgebra ==
  alg.open =>
    LET want == AscendingSeqOf(SetOperation(alg.kind, Range(data), Range(other.data)))
    IN  /\ IsPrefix(alg.out, want)
        /\ alg.sawNone => alg.out = want

\* a symmetric difference of two sets that both hold a rotated subarray and
\* share a value has been run to its end
C15_Witness ==
  /\ alg.open /\ alg.kind = "symmetric_difference" /\ alg.sawNone
  /\ Len(alg.out) >= 2
  /\ Range(data) \cap Range(other.data) # {}
  /\ Len(min_indexes) >= 2 /\ At(min_indexes, 1) # 0
  /\ Len(other.min_indexes) >= 2 /\ At(other.min_indexes, 1) # 0

\* C16: each of the four set-algebra iterators returns a value from at most
\* as many calls of next() as the two sets hold distinct values, so that a
\* call returns None after finitely many, no call panics, and once next() has
\* returned None every later call returns None.
C16_Exhausted ==
  alg.open =>
    /\ Len(alg.out) <= Cardinality(Range(data) \cup Range(other.data))
    /\ alg.sawNone => alg.ret = <<>>
    /\ ~alg.panic

\* a union of two sets that share a value has returned None; the None that
\* was peeked from a is still buffered
C16_Witness ==
  /\ alg.open /\ alg.kind = "union" /\ alg.sawNone /\ alg.ret = <<>>
  /\ alg.st.a.peeked = << <<>> >>
  /\ Len(alg.out) >= 3
  /\ Range(data) \cap Range(other.data) # {}

\* C21: truncate(len) on a set of n elements leaves exactly the len smallest
\* elements when 0 < len < n, leaves the set unchanged when len >= n, and
\* leaves all three arrays empty, as after clear(), when len = 0; the
\* structural invariants hold afterwards.
C21_Truncate ==
  last.op = "truncate" =>
    /\ (0 < last.arg /\ last.arg < len(last.pre)) =>
         /\ len(Self) = last.arg
         /\ Range(data) = {x \in Range(last.pre.data) :
                             CountLess(Range(last.pre.data), x) < last.arg}
    /\ last.arg >= len(last.pre) => Self = last.pre
    /\ last.arg = 0 => (Self = EmptySet /\ Self = clear(last.pre))
    /\ ~last.panic
    /\ Len(min_data) = Len(min_indexes)
    /\ \A i \in 0 .. Len(min_indexes) - 1 :
         /\ Len(Window(Self, i)) > 0
         /\ At(min_indexes, i) < Len(Window(Self, i))
         /\ At(min_data, i) = At(data, T(i) + At(min_indexes, i))
    /\ StrictlyAscending(LogicalSeq(Self))
    /\ StrictlyAscending(min_data)
    /\ (Len(min_indexes) > 0 /\ ~is_last_subarray_full(Self))
         => At(min_indexes, Len(min_indexes) - 1) = 0

\* a truncate has cut a set of three subarrays, the middle one rotated, down
\* to two elements, the second of them inside the rotated subarray
C21_Witness ==
  /\ last.op = "truncate"
  /\ last.arg = 2
  /\ Len(last.pre.min_indexes) = 3
  /\ At(last.pre.min_indexes, 1) # 0
  /\ Len(data) = 2

\* C22: a.append(b) leaves a holding exactly the union of the previous
\* contents of a and b, values present in both kept once, and leaves b empty,
\* for any two reachable sets.
C22_Append ==
  last.op = "append" =>
    /\ ~last.panic
    /\ LogicalSeq(Self) = AscendingSeqOf(Range(last.pre.data) \cup Range(last.arg.data))
    /\ len(Self) = Cardinality(Range(last.pre.data) \cup Range(last.arg.data))
    /\ assert_invariants(Self)
    /\ other = EmptySet

\* two sets with a rotated subarray each, sharing a value and each holding a
\* value the other lacks, have been appended
C22_Witness ==
  /\ last.op = "append"
  /\ Len(last.pre.min_indexes) >= 2 /\ At(last.pre.min_indexes, 1) # 0
  /\ Len(last.arg.min_indexes) >= 2 /\ At(last.arg.min_indexes, 1) # 0
  /\ Range(last.pre.data) \cap Range(last.arg.data) # {}
  /\ Range(last.pre.data) \ Range(last.arg.data) # {}
  /\ Range(last.arg.data) \ Range(last.pre.data) # {}
  /\ len(Self) = AlgValues

\* C23: converting any reachable set into a plain sequence (Into<Vec>) yields
\* all its elements in strictly ascending order, and building a set from that
\* sequence gives a set equal (==) to the original.
C23_IntoVecRoundTrip ==
  \A vec \in {into_vec(Self)} :
    /\ Len(vec) = len(Self)
    /\ Range(vec) = Range(data)
    /\ StrictlyAscending(vec)
    /\ \A r \in {from_vec(vec)} :
         /\ ~r.panic
         /\ eq(r.set, Self)
         /\ eq(Self, r.set)

\* the set converted has three subarrays, the second and third rotated, and
\* was left so by a remove
C23_Witness ==
  /\ last.op = "remove" /\ last.ret
  /\ len(Self) = 6
  /\ At(min_indexes, 1) # 0
  /\ At(min_indexes, 2) # 0
  /\ into_vec(Self) # data

\* C24: for an Iter in any state reached by next() and next_back() calls,
\* count() and size_hint() give the number of elements not yet yielded, min()
\* gives the smallest remaining element, max() and last() give the largest
\* remaining element, and each gives None (or 0) when nothing remains.
C24_IterShortcuts ==
  (iter.open /\ iter.stepsOnly) =>
    \A rem \in {Drain(Self, iter.it)} :
      /\ Iter_count(iter.it) = Len(rem)
      /\ Iter_size_hint(iter.it) = <<Len(rem), <<Len(rem)>> >>
      /\ Iter_min(Self, iter.it) = IF rem = <<>> THEN <<>> ELSE <<rem[1]>>
      /\ Iter_max(Self, iter.it) = IF rem = <<>> THEN <<>> ELSE <<rem[Len(rem)]>>
      /\ Iter_last(Self, iter.it) = IF rem = <<>> THEN <<>> ELSE <<rem[Len(rem)]>>

\* C25: Iter::nth_back(n) returns the element n positions before the current
\* back cursor (on a fresh iterator over m elements: select(m-1-n)) when at
\* least n+1 elements remain, and returns None when fewer than n+1 elements
\* remain.
C25_NthBack ==
  iter.open =>
    \A rem \in {Drain(Self, iter.it)} :
      \A n \in 0 .. IterValues :
        \A r \in {Iter_nth_back(Self, iter.it, n)} :
          /\ ~r.panic
          /\ r.ret = IF Len(rem) >= n + 1 THEN <<rem[Len(rem) - n]>> ELSE <<>>
          /\ (iter.by = "iter" /\ iter.calls = 0 /\ n < len(Self)) =>
                r.ret = select(Self, len(Self) - 1 - n)

\* C26: for every offset n, integer_sum_inverse(n) is the largest i with
\* T(i) <= n, that is T(inv(n)) <= n < T(inv(n)+1); in particular
\* integer_sum_inverse(T(i)) = i, and the result is right for n equal to
\* T(i)-1, T(i) and T(i)+1.
C26_IntegerSumInverse ==
  last.op = "integer_sum_inverse" =>
    /\ last.ret >= 0
    /\ T(last.ret) <= last.arg
    /\ last.arg < T(last.ret + 1)
    /\ integer_sum(last.ret) <= last.arg /\ last.arg < integer_sum(last.ret + 1)
    /\ \A i \in 0 .. MaxOffset :
         /\ last.arg = T(i) => last.ret = i
         /\ (i > 0 /\ last.arg = T(i) - 1) => last.ret = i - 1
         /\ (i > 1 /\ last.arg = T(i) + 1) => last.ret = i
    /\ last.ret = integer_sum_inverse(last.arg)

\* the square root of the last offset before a subarray boundary has been
\* rounded up to the next subarray index and the correction step has acted
C26_Witness ==
  /\ last.op = "integer_sum_inverse"
  /\ last.arg = T(11) - 1
  /\ last.tmp = 11
  /\ last.ret = 10

\* C27: take(v) returns the stored value equal to v and removes it when v is
\* present, and returns absence leaving the set unchanged when v is absent;
\* after take(v) the set never contains v.
C27_Take ==
  last.op = "take" =>
    /\ ~last.panic
    /\ IF last.arg \in Range(last.pre.data)
         THEN /\ last.ret = <<last.arg>>
              /\ LogicalSeq(Self) = AscendingSeqOf(Range(last.pre.data) \ {last.arg})
              /\ len(Self) = len(last.pre) - 1
         ELSE /\ last.ret = <<>>
              /\ Self = last.pre
    /\ ~contains(Self, last.arg)
    /\ last.arg \notin Range(data)

\* a value has been taken out of the rotated middle subarray of a set of
\* three full subarrays
C27_Witness ==
  /\ last.op = "take" /\ last.ret = <<last.arg>>
  /\ len(last.pre) = 6
  /\ At(last.pre.min_indexes, 1) # 0
  /\ last.arg \in Range(Window(last.pre, 1))

\* C28: the output of intersection does not depend on which operand is
\* iterated and which is probed: for any two reachable sets A and B,
\* A.intersection(B) and B.intersection(A) yield the same sequence, whatever
\* the relative sizes of A and B. (While a set-algebra iterator is open the
\* two sets are the borrowed, unchanged ones of the state before it.)
C28_IntersectionSymmetric ==
  ~alg.open =>
    \A ab \in {Intersection_collect(Self, other, intersection(Self, other))} :
      \A ba \in {Intersection_collect(other, Self, intersection(other, Self))} :
        /\ ab = ba
        /\ ab = AscendingSeqOf(Range(data) \cap Range(other.data))

\* the two sets have a rotated subarray each and the same size, share two
\* values and hold one value each that the other lacks
C28_Witness ==
  /\ ~alg.open
  /\ len(Self) = len(other)
  /\ Len(min_indexes) >= 2 /\ At(min_indexes, 1) # 0
  /\ Len(other.min_indexes) >= 2 /\ At(other.min_indexes, 1) # 0
  /\ Cardinality(Range(data) \cap Range(other.data)) = 2
  /\ Range(data) \ Range(other.data) # {}
  /\ intersection(Self, other).small_is_self
  /\ intersection(other, Self).small_is_self

\* C29: for any two reachable sets A and B, A.is_subset(B) returns true
\* exactly when A.difference(B) yields no element, that is when every element
\* of A is in B; B.is_superset(A) returns the same value; and A.is_disjoint(B)
\* returns true exactly when A.intersection(B) yields no element. (While a
\* set-algebra iterator is open the two sets are the borrowed, unchanged ones
\* of the state before it.)
C29_SetRelations ==
  ~alg.open =>
    \A p \in {<<Self, other>>, <<other, Self>>} :
      /\ is_subset(p[1], p[2])
           = (Difference_next(p[1], p[2], difference(p[1], p[2])).ret = <<>>)
      /\ is_subset(p[1], p[2]) = (Range(p[1].data) \subseteq Range(p[2].data))
      /\ is_superset(p[2], p[1]) = is_subset(p[1], p[2])
      /\ is_disjoint(p[1], p[2])
           = (Intersection_collect(p[1], p[2], intersection(p[1], p[2])) = <<>>)
      /\ is_disjoint(p[1], p[2]) = (Range(p[1].data) \cap Range(p[2].data) = {})

\* the first set is a proper subset of the second, both with a rotated
\* subarray, so that the loop of is_subset runs to its end
C29_Witness ==
  /\ ~alg.open
  /\ Range(data) \subseteq Range(other.data)
  /\ len(Self) = 3 /\ len(other) = 4
  /\ At(min_indexes, 1) # 0
  /\ At(other.min_indexes, 1) # 0
  /\ is_subset(Self, other) /\ ~is_subset(other, Self) /\ ~is_disjoint(Self, other)

\* C30: on every reachable set find_raw_index(v) returns Ok(p) only with
\* data[p] = v and returns Ok whenever v is stored; otherwise it returns
\* Err(p) with 0 <= p <= len() and p inside, or immediately at the end of, the
\* one subarray whose rank range must receive v; it returns Err(0) on an empty
\* store, never targets a new subarray while the last subarray is partially
\* filled, and never reaches its unreachable!() arm.
C30_FindRawIndex ==
  \A v \in Values :
    \A f \in {find_raw_index(Self, v)} :
      /\ ~f.unreachable
      /\ f.ok => (f.idx >= 0 /\ f.idx < len(Self) /\ At(data, f.idx) = v)
      /\ v \in Range(data) => f.ok
      /\ len(Self) = 0 => (~f.ok /\ f.idx = 0)
      /\ ~f.ok =>
           \* j is the subarray whose rank range holds the rank v will have
           \A j \in {get_subarray_idx_from_array_idx(CountLess(Range(data), v))} :
             /\ 0 <= f.idx /\ f.idx <= len(Self)
             /\ T(j) <= f.idx /\ f.idx <= Min2(T(j + 1), len(Self))
             /\ f.idx < T(j + 1)
             /\ (Len(min_indexes) > 0 /\ ~is_last_subarray_full(Self)) =>
                   /\ j < Len(min_indexes)
                   /\ get_subarray_idx_from_array_idx(f.idx) < Len(min_indexes)

\* on a set whose partially filled last subarray follows a rotated one, an
\* absent value above every element is sent to the end of the last subarray
\* and an absent value below the pivot of the rotated one into its wrapped
\* part
C30_Witness ==
  /\ last.op \in {"insert", "remove"}
  /\ Len(min_indexes) = 3 /\ len(Self) = 5
  /\ At(min_indexes, 1) # 0
  /\ \E v \in Values \ Range(data) :
       /\ ~find_raw_index(Self, v).ok
       /\ find_raw_index(Self, v).idx = len(Self)
  /\ \E v \in Values \ Range(data) :
       /\ ~find_raw_index(Self, v).ok
       /\ find_raw_index(Self, v).idx = T(1)

\* the container and the carried value once the propagation of the last
\* insert has passed subarray j: the local insertion into the target, then
\* the loop run up to and including j
PropagatedThrough(j) ==
  insert_propagate(
    insert_full_local(last.pre, last.arg, find_raw_index(last.pre, last.arg).idx,
                      InsertTarget(last.pre, last.arg)).set,
    InsertTarget(last.pre, last.arg) + 1,
    insert_full_local(last.pre, last.arg, find_raw_index(last.pre, last.arg).idx,
                      InsertTarget(last.pre, last.arg)).prev_max,
    j, TRUE)

\* C31 as stated: during insert propagation, for each subarray after the
\* target one, the carried value is written into the slot that held that
\* subarray's minimum, and the value carried on to the next subarray is that
\* subarray's former minimum.
C31_PropagationThroughMinimum ==
  InsertedIntoFull =>
    \A j \in After(last.pre, InsertTarget(last.pre, last.arg)) :
      \A b \in {PropagatedThrough(j - 1)} :
        \A a \in {PropagatedThrough(j)} :
          /\ a.set.data = SetAt(b.set.data, MinSlot(last.pre, j), b.prev_max)
          /\ a.prev_max = At(last.pre.min_data, j)

\* C31 amended: during insert propagation, for each subarray after the target
\* one, in increasing order and stopping at a partial last subarray, the
\* carried value is written into the slot that held that subarray's maximum
\* (and becomes its minimum), and the value carried on to the next subarray
\* is that subarray's former maximum.
C31_PropagationThroughMaximum ==
  InsertedIntoFull =>
    \A j \in After(last.pre, InsertTarget(last.pre, last.arg)) :
      \A b \in {PropagatedThrough(j - 1)} :
        \A a \in {PropagatedThrough(j)} :
          /\ At(last.pre.data, MaxSlot(last.pre, j)) = MaxOf(last.pre, j)
          /\ b.prev_max = MaxOf(last.pre, j - 1)
          /\ a.set.data = SetAt(b.set.data, MaxSlot(last.pre, j), b.prev_max)
          /\ a.set.min_data = SetAt(b.set.min_data, j, b.prev_max)
          /\ a.prev_max = MaxOf(last.pre, j)
          /\ At(data, MaxSlot(last.pre, j)) = b.prev_max
          /\ At(min_data, j) = b.prev_max
          /\ Window(Self, j) = Window(a.set, j)

\* a value has been inserted into the first of three full subarrays, the
\* second and third of them rotated, and the propagation has passed both
C31_Witness ==
  /\ InsertedIntoFull
  /\ InsertTarget(last.pre, last.arg) = 0
  /\ After(last.pre, 0) = {1, 2}
  /\ At(last.pre.min_indexes, 1) # 0
  /\ At(last.pre.min_indexes, 2) # 0

\* C32: after an insert whose target is a full subarray s, every later full
\* subarray j > s has as its new minimum the former maximum of subarray j-1
\* (for j = s+1, the maximum evicted from s by the local insertion), holds the
\* same elements as before except that its former maximum has been carried to
\* subarray j+1, and has pivot offset (old pivot - 1) mod (j+1).
C32_InsertShiftsLaterSubarrays ==
  InsertedIntoFull =>
    \A j \in After(last.pre, InsertTarget(last.pre, last.arg)) :
      /\ At(min_data, j) = MaxOf(last.pre, j - 1)
      /\ MinOf(Self, j) = MaxOf(last.pre, j - 1)
      /\ j = InsertTarget(last.pre, last.arg) + 1 =>
            MaxOf(last.pre, j - 1)
              = insert_full_local(last.pre, last.arg,
                                  find_raw_index(last.pre, last.arg).idx, j - 1).prev_max
      /\ Range(Window(Self, j))
           = (Range(Window(last.pre, j)) \ {MaxOf(last.pre, j)})
               \cup {MaxOf(last.pre, j - 1)}
      /\ Len(Window(Self, j)) = j + 1
      /\ j + 1 < Len(min_indexes)
      /\ MaxOf(last.pre, j) \in Range(Window(Self, j + 1))
      /\ At(min_indexes, j) = (At(last.pre.min_indexes, j) + j) % (j + 1)

\* an insert into the first of three full subarrays has shifted an unrotated
\* second subarray, whose pivot wraps to its last slot, and a rotated third
\* one, and has opened a fourth subarray
C32_Witness ==
  /\ InsertedIntoFull
  /\ InsertTarget(last.pre, last.arg) = 0
  /\ len(last.pre) = 6
  /\ At(last.pre.min_indexes, 1) = 0 /\ At(min_indexes, 1) = 1
  /\ At(last.pre.min_indexes, 2) # 0
  /\ At(min_indexes, 2) = At(last.pre.min_indexes, 2) - 1
  /\ Len(min_indexes) = 4

\* C33: at the end of an insert into a full subarray, if every subarray
\* including the last was full the carried value is appended as a new
\* one-element subarray with pivot 0, and otherwise the carried value is
\* strictly smaller than the current minimum of the partial last subarray and
\* is stored at that subarray's first offset, so the assertion
\* prev_max <= data[start of last subarray] always holds and the index it
\* reads is in bounds.
C33_InsertTermination ==
  InsertedIntoFull =>
    \A k \in {Len(last.pre.min_indexes)} :
      /\ ~last.panic
      /\ len(Self) = len(last.pre) + 1
      /\ IF is_last_subarray_full(last.pre)
           THEN \A carried \in {MaxOf(last.pre, k - 1)} :
                  /\ Len(min_indexes) = k + 1
                  /\ Len(min_data) = k + 1
                  /\ data = Slice(data, 0, T(k)) \o <<carried>>
                  /\ At(min_indexes, k) = 0
                  /\ At(min_data, k) = carried
           ELSE \A carried \in {MaxOf(last.pre, k - 2)} :
                  /\ Len(min_indexes) = k
                  /\ T(k - 1) < len(last.pre)
                  /\ carried < At(last.pre.data, T(k - 1))
                  /\ carried < MinOf(last.pre, k - 1)
                  /\ At(data, T(k - 1)) = carried
                  /\ Window(Self, k - 1) = <<carried>> \o Window(last.pre, k - 1)
                  /\ At(min_indexes, k - 1) = 0
                  /\ At(min_data, k - 1) = carried

\* an insert into the first subarray has ended in a partial last subarray
\* behind a rotated one
C33_Witness ==
  /\ InsertedIntoFull
  /\ InsertTarget(last.pre, last.arg) = 0
  /\ Len(last.pre.min_indexes) = 3
  /\ ~is_last_subarray_full(last.pre)
  /\ At(last.pre.min_indexes, 1) # 0


\* C34: after a remove whose target is a subarray s other than the last, every subarray
\* j with s < j < last has lost its former minimum, which is now the maximum of subarray
\* j-1, has received the former minimum of subarray j+1 in exchange, and has pivot
\* (old pivot + 1) mod (j+1); the last subarray has lost its minimum, which is now the
\* maximum of its predecessor, and what is left of it is stored in ascending order with
\* pivot 0 (nothing is left of a last subarray that held one element: it is dropped).
RemoveTarget(S, v) == get_subarray_idx_from_array_idx(find_raw_index(S, v).idx)

RemovedBeforeLast ==
  /\ last.op = "remove" /\ last.ret
  /\ RemoveTarget(last.pre, last.arg) < Len(last.pre.min_indexes) - 1

C34_RemoveShiftsLaterSubarrays ==
  RemovedBeforeLast =>
    \A s \in {RemoveTarget(last.pre, last.arg)} : \A k \in {Len(last.pre.min_indexes) - 1} :
      /\ ~last.panic
      /\ \A j \in (s + 1) .. (k - 1) :
           /\ Range(Window(Self, j)) =
                (Range(Window(last.pre, j)) \ {MinOf(last.pre, j)})
                  \cup {MinOf(last.pre, j + 1)}
           /\ MaxOf(Self, j - 1) = MinOf(last.pre, j)
           /\ At(min_indexes, j) = (At(last.pre.min_indexes, j) + 1) % (j + 1)
      /\ MaxOf(Self, k - 1) = MinOf(last.pre, k)
      /\ IF Len(Window(last.pre, k)) = 1
           THEN Len(min_indexes) = k /\ len(Self) = T(k)
           ELSE /\ Len(min_indexes) = k + 1
                /\ Range(Window(Self, k)) = Range(Window(last.pre, k)) \ {MinOf(last.pre, k)}
                /\ Len(Window(Self, k)) = Len(Window(last.pre, k)) - 1
                /\ \A a, b \in 0 .. (Len(Window(Self, k)) - 1) :
                     a < b => At(Window(Self, k), a) < At(Window(Self, k), b)
                /\ At(min_indexes, k) = 0

\* a remove from subarray 0 of a set of three subarrays whose last one was full and
\* rotated, the pivot of the subarray between them wrapping around to 0
C34_Witness ==
  /\ RemovedBeforeLast
  /\ RemoveTarget(last.pre, last.arg) = 0
  /\ Len(last.pre.min_indexes) = 3
  /\ At(last.pre.min_indexes, 2) # 0
  /\ At(last.pre.min_indexes, 1) = 1 /\ At(min_indexes, 1) = 0
  /\ Len(min_indexes) = 3 /\ len(Self) = 5


\* C35: after any sequence of next(), next_back(), nth(n) and nth_back(n) calls on an
\* Iter over a range of m elements the cursors satisfy what Iter::assert_invariants
\* asserts: next_index <= m, next_rev_index <= m, and next_index - next_rev_index = 1
\* whenever next_rev_index < next_index; no call fails that assertion.
C35_IterCursorInvariant ==
  iter.open => (Iter_assert_invariants(iter.it) /\ ~iter.panic)


\* C36: insert(v) and remove(v) leave every subarray below the target subarray (the one
\* that receives or holds v) as it was: for every j below the target index the window
\* data[T(j)..T(j+1)), min_indexes[j] and min_data[j] are the same before and after.
SameSubarray(S, R, j) ==
  /\ j < Len(R.min_indexes) /\ j < Len(R.min_data)
  /\ Window(R, j) = Window(S, j)
  /\ At(R.min_indexes, j) = At(S.min_indexes, j)
  /\ At(R.min_data, j) = At(S.min_data, j)

C36_FrameBelowTarget ==
  /\ last.op = "insert" =>
       \A j \in 0 .. (InsertTarget(last.pre, last.arg) - 1) : SameSubarray(last.pre, Self, j)
  /\ last.op = "remove" =>
       \A j \in 0 .. (RemoveTarget(last.pre, last.arg) - 1) : SameSubarray(last.pre, Self, j)

\* a remove from the full, rotated last subarray of three, below which a subarray is
\* rotated too
C36_Witness ==
  /\ last.op = "remove" /\ last.ret
  /\ RemoveTarget(last.pre, last.arg) = 2
  /\ is_last_subarray_full(last.pre) /\ Len(last.pre.min_indexes) = 3
  /\ At(last.pre.min_indexes, 2) # 0
  /\ At(last.pre.min_indexes, 1) = 1 /\ At(min_indexes, 1) = 1
  /\ len(Self) = 5


\* C37: equality depends on the logical content only: two sets built by different
\* sequences of operations compare equal (==), in either order, exactly when they hold
\* the same elements, whatever the order of data inside the subarrays and whatever the
\* pivots; equal sets feed the same values to a hasher.
C37_EqualityByContent ==
  ~alg.open =>
    /\ eq(Self, other) = (Range(data) = Range(other.data))
    /\ eq(other, Self) = eq(Self, other)
    /\ eq(Self, Self)
    /\ eq(Self, other) => hash(Self) = hash(other)

\* two sets of four elements hold the same elements, stored in different orders with
\* different pivots, and compare equal
C37_Witness ==
  /\ ~alg.open
  /\ len(Self) = 4
  /\ Range(data) = Range(other.data)
  /\ data # other.data
  /\ min_indexes # other.min_indexes
  /\ eq(Self, other)

====
